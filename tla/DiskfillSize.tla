---------------------------- MODULE DiskfillSize ----------------------------
(***************************************************************************)
(* How much a diskfill writes and in which blocks (package diskfill,       *)
(* diskfill.go). Usage is counted in units the code calls KB, Kilo of them *)
(* to one of the units of sizes and block sizes.                           *)
(***************************************************************************)
EXTENDS Integers

CONSTANTS
    Kilo,               \* 1024 in the code
    Hundred,            \* 100: what a percentage is a part of
    maxBlockSize,       \* 1024
    defaultBlockSize    \* 5

ASSUME SizeAssumption ==
    /\ Kilo \in Nat \ {0} /\ Hundred \in Nat \ {0}
    /\ maxBlockSize \in Nat \ {0} /\ defaultBlockSize \in Nat \ {0}

(* What Args makes of the options: nothing at all, an error, or a command. *)
Noop == [cmd |-> "noop", written |-> 0, block |-> 0]
Invalid == [cmd |-> "error", written |-> 0, block |-> 0]

(* calculateKBytesToWrite; not positive: noop, unless an amount was given. *)
calculateKBytesToWrite(opts, disk) ==
    CASE opts.Mode = "MB_TO_FILL" -> opts.Size * Kilo
      [] opts.Mode = "PERCENTAGE" -> (disk.Capacity * opts.Size) \div Hundred - disk.Used
      [] OTHER -> disk.Available - opts.Size * Kilo

(* Fault: a block that is larger than the amount is kept.                  *)
BlockOfAnySize(opts, kbytesToWrite) ==
    LET wanted == IF opts.BlockSize < 1 THEN defaultBlockSize * Kilo ELSE opts.BlockSize * Kilo
    IN  IF wanted > maxBlockSize * Kilo THEN maxBlockSize * Kilo ELSE wanted

calculateBlockSizeKBytes(opts, kbytesToWrite) ==
    LET wanted == IF opts.BlockSize < 1 THEN defaultBlockSize * Kilo ELSE opts.BlockSize * Kilo
        bounded == IF wanted > maxBlockSize * Kilo THEN maxBlockSize * Kilo ELSE wanted
    IN  IF bounded <= kbytesToWrite THEN bounded
        ELSE IF kbytesToWrite > Kilo * Kilo THEN Kilo * Kilo ELSE kbytesToWrite

(* dd writes whole blocks, fallocate the amount.                           *)
ddArgs(kbytesToWrite, block) ==
    [cmd |-> "dd", written |-> (kbytesToWrite \div block) * block, block |-> block]
fallocateArgs(kbytesToWrite) == [cmd |-> "fallocate", written |-> kbytesToWrite, block |-> 1]

Args(opts, disk) ==
    LET kbytesToWrite == calculateKBytesToWrite(opts, disk)
    IN  IF kbytesToWrite <= 0
        THEN IF opts.Mode = "MB_TO_FILL" THEN Invalid ELSE Noop
        ELSE IF opts.Method = "AT_ONCE" THEN fallocateArgs(kbytesToWrite)
        ELSE ddArgs(kbytesToWrite, calculateBlockSizeKBytes(opts, kbytesToWrite))
=============================================================================
