----------------------------- MODULE CrudStore -----------------------------
(***************************************************************************)
(* What the CRUD API promises its clients, with no index beside the store: *)
(* POST picks an unused id, GET answers what is stored, PUT and DELETE     *)
(* change one item.  A restart of the server is invisible.                 *)
(***************************************************************************)
EXTENDS Integers

CONSTANTS EntityName, Id, NewId, Body, Absent

VARIABLES
    entities,  \* the entities that exist
    store,     \* store[e][i]: the content of item i of entity e, or Absent
    reply      \* the last answer and the request it answers

vars == <<entities, store, reply>>

Answer(op, e, i, code, ids, body) ==
    [op |-> op, entity |-> e, id |-> i, code |-> code, ids |-> ids, body |-> body]

Items(e) == {i \in Id : store[e][i] # Absent}

Init ==
    /\ entities \in SUBSET EntityName
    /\ store \in [EntityName -> [Id -> {Absent} \cup Body]]
    /\ \A e \in EntityName \ entities : Items(e) = {}
    /\ reply = Answer("none", Absent, 0, 0, {}, Absent)

\* A new item under an id that no item of e has.
Create(e, b) ==
    \E i \in NewId \ Items(e) :
        /\ entities' = entities \cup {e}
        /\ store' = [store EXCEPT ![e][i] = b]
        /\ reply' = Answer("create", e, i, 201, {}, Absent)

List(e) ==
    /\ reply' = IF e \in entities
                THEN Answer("list", e, 0, 200, Items(e), Absent)
                ELSE Answer("list", e, 0, 404, {}, Absent)
    /\ UNCHANGED <<entities, store>>

Retrieve(e, i) ==
    /\ reply' = IF i \in Items(e)
                THEN Answer("retrieve", e, i, 200, {}, store[e][i])
                ELSE Answer("retrieve", e, i, 404, {}, Absent)
    /\ UNCHANGED <<entities, store>>

Update(e, i, b) ==
    /\ entities' = entities \cup {e}
    /\ store' = [store EXCEPT ![e][i] = b]
    /\ reply' = Answer("update", e, i, 200, {}, Absent)

Delete(e, i) ==
    /\ store' = [store EXCEPT ![e][i] = Absent]
    /\ reply' = Answer("delete", e, i, IF i \in Items(e) THEN 200 ELSE 404, {}, Absent)
    /\ UNCHANGED entities

\* A request that addresses no item: it shows nothing and changes nothing.
Decline ==
    /\ \E code \in {200, 400, 404, 405} :
           reply' = Answer("other", Absent, 0, code, {}, Absent)
    /\ UNCHANGED <<entities, store>>

Next ==
    \/ \E e \in EntityName, b \in Body : Create(e, b)
    \/ \E e \in EntityName : List(e)
    \/ \E e \in EntityName, i \in Id : Retrieve(e, i) \/ Delete(e, i)
    \/ \E e \in EntityName, i \in Id, b \in Body : Update(e, i, b)
    \/ Decline

Spec == Init /\ [][Next]_vars
=============================================================================
