------------------------------ MODULE CacheFile ------------------------------
(***************************************************************************)
(* What the DAS cache file promises to the processes that share it: it is  *)
(* created once, by as many writers as find it absent at the same time;    *)
(* only they change it; and unless something goes wrong it is whole when   *)
(* the last of them has finished, and for good.  How the writers exclude   *)
(* each other, and what the file looks like meanwhile, is left open.       *)
(*                                                                         *)
(* A reader looks how long the file is and then takes that much from it:   *)
(* it gets the DAS if the file was whole both times, and only from a whole *)
(* file.  DasDiskCache implements this module.                             *)
(***************************************************************************)
CONSTANTS Process

VARIABLES
    content,    \* of the file: absent, partial, whole
    phase,      \* of the request of each process
    seen,       \* the length a reader has found: all, less, none
    answer,     \* the DAS each process has got
    spoiled     \* whether a process was killed or a write failed

vars == <<content, phase, seen, answer, spoiled>>

Phases == {"idle", "building", "built", "writing", "reading", "looked", "answered"}

Init ==
    /\ content = "absent"
    /\ phase = [p \in Process |-> "idle"]
    /\ seen = [p \in Process |-> "none"]
    /\ answer = [p \in Process |-> "none"]
    /\ spoiled = FALSE

Becomes(p, from, to) == phase[p] = from /\ phase' = [phase EXCEPT ![p] = to]

\* A request reads a file that exists and builds the DAS otherwise.
Start(p) ==
    /\ Becomes(p, "idle", IF content = "absent" THEN "building" ELSE "reading")
    /\ answer' = [answer EXCEPT ![p] = "none"]
    /\ UNCHANGED <<content, seen, spoiled>>

Build(p) ==
    /\ Becomes(p, "building", "built")
    /\ answer' = [answer EXCEPT ![p] = "whole"]
    /\ UNCHANGED <<content, seen, spoiled>>

Open(p) ==
    /\ Becomes(p, "built", "writing")
    /\ content' = "partial"
    /\ UNCHANGED <<seen, answer, spoiled>>

Change(p) ==
    /\ phase[p] = "writing"
    /\ content' \in {"partial", "whole"}
    /\ UNCHANGED <<phase, seen, answer, spoiled>>

\* The last writer leaves the file whole.
Close(p) ==
    /\ Becomes(p, "writing", "idle")
    /\ content' \in {"partial", "whole"}
    /\ (\A q \in Process \ {p} : phase[q] # "writing") /\ ~spoiled => content' = "whole"
    /\ UNCHANGED <<seen, answer, spoiled>>

Look(p) ==
    /\ Becomes(p, "reading", "looked")
    /\ \E s \in {"all", "less"} : /\ content = "whole" => s = "all"
                                  /\ seen' = [seen EXCEPT ![p] = s]
    /\ UNCHANGED <<content, answer, spoiled>>

Take(p) ==
    /\ Becomes(p, "looked", "answered")
    /\ \E r \in {"whole", "garbled", "failed"} :
         /\ r = "whole" <=> content = "whole" /\ seen[p] = "all"
         /\ answer' = [answer EXCEPT ![p] = r]
    /\ seen' = [seen EXCEPT ![p] = "none"]
    /\ UNCHANGED <<content, spoiled>>

Finish(p) ==
    /\ Becomes(p, "answered", "idle")
    /\ UNCHANGED <<content, seen, answer, spoiled>>

\* A write fails: the writer goes on with or without an error, or ends.
WriteFails(p) ==
    /\ phase[p] = "writing"
    /\ spoiled' = TRUE
    /\ phase' \in {phase, [phase EXCEPT ![p] = "idle"]}
    /\ answer' \in {answer, [answer EXCEPT ![p] = "failed"]}
    /\ UNCHANGED <<content, seen>>

Kill(p) ==
    /\ spoiled' = TRUE
    /\ phase' = [phase EXCEPT ![p] = "idle"]
    /\ seen' = [seen EXCEPT ![p] = "none"]
    /\ answer' = [answer EXCEPT ![p] = "none"]
    /\ UNCHANGED content

Next ==
    \E p \in Process :
      \/ Start(p) \/ Build(p) \/ Open(p) \/ Change(p) \/ Close(p)
      \/ Look(p) \/ Take(p) \/ Finish(p) \/ WriteFails(p) \/ Kill(p)

Spec == Init /\ [][Next]_vars

=============================================================================
