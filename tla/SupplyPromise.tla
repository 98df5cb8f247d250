--------------------------- MODULE SupplyPromise ----------------------------
(***************************************************************************)
(* What a page remembers of brown-outs                                     *)
(* (src/src/anthias_common/undervoltage.py), and what the record of them   *)
(* promises, in terms of the boot, the record in Redis and the alarms that *)
(* were shown.  Undervoltage says how these change.                        *)
(***************************************************************************)
EXTENDS Integers

VARIABLES
    bootKnown,  \* the kernel's boot id can be read
    bootNo,     \* which boot this is
    broker,     \* Redis answers
    record,     \* under REDIS_KEY, with the boot it was written in
    dipped      \* history: the alarm was shown in this boot

Empty == [active |-> FALSE, seen |-> FALSE, count |-> 0]

\* Without a boot id there is no history; a Redis that does not answer leaves
\* it unknown, and a record of another boot is discarded.
Remembered ==
    IF bootKnown /\ broker /\ record.boot = bootNo
    THEN [active |-> record.active, seen |-> record.seen,
          count |-> record.count]
    ELSE Empty

\* "it can under-report history, never invent it": a page warns of a brown-out
\* only in a boot in which the alarm was shown, whatever latch has survived and
\* whenever a reading was taken.
WarningIsDeserved == Remembered.seen => dipped

\* "only ever goes up (until the boot id changes)": none of the two writers
\* takes the record of a brown-out back, though each writes over what the other
\* wrote since it loaded, and Redis may be away for one half only.
WarningIsKept ==
    [][ (record.boot = bootNo /\ record.seen /\ bootNo' = bootNo)
            => record'.boot = bootNo /\ record'.seen ]_<<bootNo, record>>

\* Both: the record is neither invented nor taken back.
WarningIsHonest == []WarningIsDeserved /\ WarningIsKept
=============================================================================
