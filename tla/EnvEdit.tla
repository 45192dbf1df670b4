------------------------------ MODULE EnvEdit ------------------------------
(***************************************************************************)
(* What one call of the store does to one (application, environment)       *)
(* namespace: the edit closures that internal/store hands to rewriteEnv    *)
(* and rewriteEnvWithOrigins, as operators on the edited contents.  Both   *)
(* the atomic store (AtomicStore) and the file-by-file store (Store) are   *)
(* built from these operators.                                             *)
(*                                                                         *)
(* A secret's value is abstracted to the number of the call that supplied  *)
(* it: two calls always supply different values, which is the case in      *)
(* which losing one of them can be seen.                                   *)
(***************************************************************************)
EXTENDS Naturals

CONSTANTS Namespace,   \* the (application, environment) pairs
          Key,         \* secret names
          Recipient    \* age recipients

\* A key without a value, and the label of a key the origins file does not list.
Absent   == 0
NoOrigin == "none"

\* The labels of K-37: generated by `provision`, set and executed, typed in.
Origin == {"provision", "and-set", "set"}

\* Calls that rewrite values and origins, and calls that rewrite recipients only.
ValueKind     == {"create", "update", "set", "delete"}
DropKind      == {"recipientDrop", "recipientRotate"}
OriginKind    == ValueKind \union DropKind
RecipientKind == {"recipientAdd", "recipientRemove"}
RewriteKind   == OriginKind \union RecipientKind
ReadKind      == {"read", "verify"}

\* "set" takes a set of keys: SetSecret is a batch of one, SetSecrets any batch.
ValueCall == [kind: ValueKind, ns: Namespace, keys: (SUBSET Key) \ {{}}, origin: Origin]
RecipientCall ==
    [kind: RecipientKind \union DropKind, ns: Namespace, who: Recipient]
InitCall == [kind: {"init"}, ns: Namespace, recipients: (SUBSET Recipient) \ {{}}]
ReadCall == [kind: ReadKind, ns: Namespace]
CallType == ValueCall \union RecipientCall \union InitCall \union ReadCall

\* What an edit sees and changes.
Content ==
    [recipients: SUBSET Recipient,
     values:     [Key -> Nat],
     origins:    [Key -> Origin \union {NoOrigin}]]

NoValues  == [k \in Key |-> Absent]
NoOrigins == [k \in Key |-> NoOrigin]

-----------------------------------------------------------------------------
\* The refusals of the edit closures: create of an existing key, update or
\* delete of a missing one, removal of an unknown or of the last recipient.
EditAllowed(c, e) ==
    \/ c.kind \in {"set", "recipientAdd"}
    \/ c.kind = "create" /\ \A k \in c.keys : e.values[k] = Absent
    \/ c.kind \in {"update", "delete"} /\ \A k \in c.keys : e.values[k] # Absent
    \/ /\ c.kind \in {"recipientRemove"} \union DropKind
       /\ c.who \in e.recipients
       /\ e.recipients # {c.who}

\* The keys to which the call gives a value of its own.
Stamped(c) == IF c.kind \in {"create", "update", "set"} THEN c.keys ELSE {}

\* Mutant: the test on the label is inverted.
RotatedOperatorKeys(c, e) ==
    IF c.kind = "recipientRotate"
    THEN {k \in Key : e.values[k] # Absent /\ e.origins[k] # "provision"}
    ELSE {}

\* rotateProvisionedKeys: every present key whose origin is "provision".
Rotated(c, e) ==
    IF c.kind = "recipientRotate"
    THEN {k \in Key : e.values[k] # Absent /\ e.origins[k] = "provision"}
    ELSE {}

Deleted(c) == IF c.kind = "delete" THEN c.keys ELSE {}

EditedRecipients(c, e) ==
    IF c.kind = "recipientAdd" THEN e.recipients \union {c.who}
    ELSE IF c.kind \in {"recipientRemove"} \union DropKind THEN e.recipients \ {c.who}
    ELSE e.recipients

EditedValues(c, e, v) ==
    [k \in Key |->
        IF k \in Stamped(c) \union Rotated(c, e) THEN v
        ELSE IF k \in Deleted(c) THEN Absent
        ELSE e.values[k]]

\* The closures' stamps followed by pruneOriginsToValues.
EditedOrigins(c, e, v) ==
    [k \in Key |->
        IF EditedValues(c, e, v)[k] = Absent THEN NoOrigin
        ELSE IF k \in Stamped(c) THEN c.origin
        ELSE e.origins[k]]

\* The contents after call c, whose own values are v; a call that rewrites
\* recipients only never opens the origins file.
Edited(c, e, v) ==
    [recipients |-> EditedRecipients(c, e),
     values     |-> EditedValues(c, e, v),
     origins    |-> IF c.kind \in OriginKind THEN EditedOrigins(c, e, v)
                                             ELSE e.origins]
=============================================================================
