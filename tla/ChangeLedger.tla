---------------------------- MODULE ChangeLedger ----------------------------
(***************************************************************************)
(* What whole-vault sync promises a user, without calls, markers or ETags: *)
(* a change the application has promised to upload stays on the device     *)
(* until it has been published, unless the user decides to discard what    *)
(* the device holds.  VaultSync implements this specification.             *)
(***************************************************************************)
EXTENDS Naturals

CONSTANTS Devices, Edits

VARIABLES
    kept,       \* device -> the changes in its local database
    promised,   \* device -> the changes it still has to publish
    published   \* the changes that reached the cloud

vars == <<kept, promised, published>>

LedgerTypeOK ==
    /\ kept \in [Devices -> SUBSET Edits]
    /\ promised \in [Devices -> SUBSET Edits]
    /\ published \in SUBSET Edits

Init ==
    /\ kept = [d \in Devices |-> {}]
    /\ promised = [d \in Devices |-> {}]
    /\ published = {}

\* A new change, promised at once.
Promise(d, e) ==
    /\ e \notin published
    /\ kept' = [kept EXCEPT ![d] = @ \cup {e}]
    /\ promised' = [promised EXCEPT ![d] = @ \cup {e}]
    /\ UNCHANGED published

\* The device's data changes in any way that keeps what it has promised.
Rewrite(d, data) ==
    /\ promised[d] \subseteq data
    /\ kept' = [kept EXCEPT ![d] = data]
    /\ UNCHANGED <<promised, published>>

\* A vault reaches the cloud; whoever promised part of it has delivered.
Publish(data) ==
    /\ published' = published \cup data
    /\ promised' = [d \in Devices |-> promised[d] \ data]
    /\ UNCHANGED kept

\* The user discards what the device had not published.
Forfeit(d, data) ==
    /\ promised' = [promised EXCEPT ![d] = {}]
    /\ kept' = [kept EXCEPT ![d] = data]
    /\ UNCHANGED published

Next ==
    \/ \E d \in Devices, e \in Edits : Promise(d, e)
    \/ \E d \in Devices, data \in SUBSET Edits : Rewrite(d, data) \/ Forfeit(d, data)
    \/ \E data \in SUBSET Edits : Publish(data)

Spec == Init /\ [][Next]_vars

\* A promise is only made for a change the device has, and is never broken.
PromisesHeld == \A d \in Devices : promised[d] \subseteq kept[d]
=============================================================================
