---------------------------- MODULE BatchErrors ----------------------------
(***************************************************************************)
(* What becomes of the output of a failed `tc -batch` or `ip -batch`       *)
(* (package netfault, batch_error.go and the command runners). A line of   *)
(* the output is the number of the command that failed or a message before *)
(* it; a message is one of the kinds below.                                *)
(***************************************************************************)
EXTENDS Integers, SequencesExt

CONSTANTS
    ignoreErrorsBatchAdd,       \* what exists already
    ignoreErrorsBatchDelete,    \* what is already gone
    tcErrorKernelConfig         \* a module of the kernel is missing

Ok == [kind |-> "ok", Errors |-> <<>>]
Failed == [kind |-> "failed", Errors |-> <<>>]      \* an error that names no command
batchErrors(errs) == [kind |-> "batch", Errors |-> errs]

(* A hint (addTcErrorHints) is not one of the errors to ignore.            *)
ASSUME HintAssumption == "hint" \notin ignoreErrorsBatchAdd \cup ignoreErrorsBatchDelete

(* Command failed <file>:<line>; the messages before it belong to it.      *)
Command(lineno) == [lineno |-> lineno]
Text(msg) == [msg |-> msg]
IsCommand(line) == "lineno" \in DOMAIN line

(* Fault: the messages are not reset after a command.                      *)
KeepMessages(lines) ==
    LET scan(acc, line) ==
            IF IsCommand(line)
            THEN [acc EXCEPT !.errs = Append(@, [Lineno |-> line.lineno, Msg |-> acc.msg])]
            ELSE [acc EXCEPT !.msg = @ \cup {line.msg}]
    IN  FoldLeft(scan, [errs |-> <<>>, msg |-> {}], lines).errs

parseBatchError(lines) ==
    LET scan(acc, line) ==
            IF IsCommand(line)
            THEN [errs |-> Append(acc.errs, [Lineno |-> line.lineno, Msg |-> acc.msg]), msg |-> {}]
            ELSE [acc EXCEPT !.msg = @ \cup {line.msg}]
    IN  FoldLeft(scan, [errs |-> <<>>, msg |-> {}], lines).errs

Hint == [Lineno |-> 0, Msg |-> {"hint"}]
addTcErrorHints(errs) ==
    IF \E i \in DOMAIN errs : errs[i].Msg \cap tcErrorKernelConfig # {}
    THEN <<Hint, Hint>> \o errs ELSE errs

(* run: an error whose output names no command is returned as it is.       *)
run(fails, lines) ==
    IF ~fails THEN Ok
    ELSE IF parseBatchError(lines) = <<>> THEN Failed
    ELSE batchErrors(addTcErrorHints(parseBatchError(lines)))

(* A message of several lines is ignored when one of them is.              *)
filterBatchErrors(err, mode) ==
    LET ignore == IF mode = "add" THEN ignoreErrorsBatchAdd ELSE ignoreErrorsBatchDelete
        keep(kept, e) == IF e.Msg \cap ignore = {} THEN Append(kept, e) ELSE kept
        errs == FoldLeft(keep, <<>>, err.Errors)
    IN  IF err.kind # "batch" THEN err
        ELSE IF errs = <<>> THEN Ok ELSE batchErrors(errs)
=============================================================================
