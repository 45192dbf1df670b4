---------------------------- MODULE AtomicStore ----------------------------
(***************************************************************************)
(* What the store promises its callers (README, "Concurrency safety"): a   *)
(* namespace is one object, every call that succeeds changes it in one     *)
(* step, from the contents the call before it left, and its version counts *)
(* those calls.                                                            *)
(***************************************************************************)
EXTENDS EnvEdit

CONSTANTS Calls,      \* the calls callers make
          MaxCalls,   \* how many of them are made
          Existing    \* the contents before the first of them

VARIABLE entry        \* namespace -> its version and contents

\* A namespace the manifest does not list has no recipients.
Initialised(ns) == entry[ns].recipients # {}

ContentOf(ns) ==
    [recipients |-> entry[ns].recipients,
     values     |-> entry[ns].values,
     origins    |-> entry[ns].origins]

Commit(ns, content) ==
    entry' = [entry EXCEPT ![ns] =
                 [version    |-> entry[ns].version + 1,
                  recipients |-> content.recipients,
                  values     |-> content.values,
                  origins    |-> content.origins]]

\* `thimble init` of a namespace that does not exist.
Create(c) ==
    /\ c.kind = "init"
    /\ ~Initialised(c.ns)
    /\ Commit(c.ns, [recipients |-> c.recipients,
                     values     |-> NoValues,
                     origins    |-> entry[c.ns].origins])

\* Any other call that succeeds, made as the v-th.
Apply(c, v) ==
    /\ c.kind \in RewriteKind
    /\ Initialised(c.ns)
    /\ EditAllowed(c, ContentOf(c.ns))
    /\ Commit(c.ns, Edited(c, ContentOf(c.ns), v))

Init == entry = Existing

Next == \E c \in Calls : Create(c) \/ \E v \in 2..MaxCalls + 1 : Apply(c, v)

Spec == Init /\ [][Next]_entry
=============================================================================
