----------------------------- MODULE Precedence -----------------------------
(***************************************************************************)
(* What the queue promises about the order of jobs, without statements,    *)
(* goroutines, statuses or crashes: a job opens (becomes dispatchable) only *)
(* when all it needs is done, is done only after it opened, and once it is  *)
(* open nothing changes what it needed.  A job may be divided into parts,   *)
(* which need only each other; what waits for the whole may then wait for a *)
(* part of it instead, as long as it has not opened.                        *)
(***************************************************************************)
EXTENDS Naturals

CONSTANTS Job,     \* the jobs there may be
          NoWhole  \* what a job that is no part is a part of

VARIABLES
    known,   \* the jobs accepted so far
    needs,   \* what each of them waits for
    whole,   \* what each of them is a part of
    open,    \* those that have become dispatchable
    done     \* those that have succeeded

orderVars == <<known, needs, whole, open, done>>

OrderInit ==
    /\ known \in SUBSET Job
    /\ needs \in [Job -> SUBSET known]
    /\ \A j \in known : \A d \in needs[j] : d < j
    /\ whole = [j \in Job |-> NoWhole]
    /\ open = {j \in known : needs[j] = {}}
    /\ done = {}

(* A part is accepted only once the whole is open, and needs only other     *)
(* parts of it; parts have no parts. *)
MayJoin(w, ds) ==
    w # NoWhole =>
        /\ w \in open /\ whole[w] = NoWhole
        /\ \A d \in ds : whole[d] = w

Accept(j) ==
    /\ known' = known \cup {j}
    /\ \E ds \in SUBSET known, w \in open \cup {NoWhole} :
          /\ MayJoin(w, ds)
          /\ needs' = [needs EXCEPT ![j] = ds]
          /\ whole' = [whole EXCEPT ![j] = w]
          /\ \/ open' = open
             \/ ds \subseteq done /\ open' = open \cup {j}
    /\ UNCHANGED done

Open(j) ==
    /\ j \in known \ open
    /\ needs[j] \subseteq done
    /\ open' = open \cup {j}
    /\ UNCHANGED <<known, needs, whole, done>>

Finish(j) ==
    /\ j \in open
    /\ done' = done \cup {j}
    /\ UNCHANGED <<known, needs, whole, open>>

(* The part q takes the place of its whole p in what j waits for. *)
Replace(j, p, q) ==
    /\ j \in known \ open
    /\ p \in needs[j]
    /\ q \in known /\ whole[q] = p
    /\ needs' = [needs EXCEPT ![j] = (@ \ {p}) \cup {q}]
    /\ UNCHANGED <<known, whole, open, done>>

OrderNext ==
    \/ \E j \in Job \ known : Accept(j)
    \/ \E j \in known : Open(j) \/ Finish(j)
    \/ \E j, q \in known : Replace(j, whole[q], q)

Order == OrderInit /\ [][OrderNext]_orderVars
=============================================================================
