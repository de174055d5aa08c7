----------------------------- MODULE MCActionSdk -----------------------------
(* The open SDK under TLC: the requests that reach the heartbeat monitors   *)
(* and the stop events, each with the state its kind of request carries in  *)
(* the protocol: the values of states do not influence what threads do.     *)
(* Prepare touches neither and no action has a status call of its own, so   *)
(* those steps of a handler are not named; they, the signal and starts that *)
(* fail, which are monitored like the others, belong to the runs of the     *)
(* lifecycle.                                                               *)
EXTENDS ActionSdk, TLC

CONSTANTS e1, h1, h2, m1, m2

MonitorRequest(h) ==
  \E e \in Execs : \/ StartRequest(h, e, "prepared")
                   \/ StatusRequest(h, e, "started")
                   \/ StopRequest(h, e, "started")

MonitorStep(h) ==
  \/ CallStart(h) /\ reply'[h] = "ok"
  \/ PersistStarted(h) \/ StopPrevious(h)
  \/ \E m \in Monitors : MonitorHeartbeat(h, m)
  \/ FindMonitor(h) \/ RecordHeartbeat(h) \/ CheckStatus(h)
  \/ TakeMonitor(h) \/ StopMonitor(h) \/ CheckStop(h) \/ CallStop(h)
  \/ RemoveFiles(h) \/ DeleteState(h)

MCNext ==
  \/ \E h \in Handlers : MonitorRequest(h) \/ MonitorStep(h) \/ Deliver(h)
  \/ \E m \in Monitors : Silence(m) \/ Notify(m) \/ WatcherStep(m)
  \/ Restart

MCSpec == Init /\ [][MCNext]_vars

Symmetry == Permutations(Handlers) \cup Permutations(Monitors)

=============================================================================
