--------------------------- MODULE ResourceManager ---------------------------
(***************************************************************************)
(* ResourceManager of src/server/src/resourcemanager.cpp: the D-Bus object *)
(* through which akonadi_control registers and removes resource instances, *)
(* and the collections that refer to a resource.                          *)
(*                                                                         *)
(* addResourceInstance() is one Transaction.  removeResourceInstance()     *)
(* has none: it reads the resource's collections once, cleans each one up  *)
(* (DataStore::cleanupCollection, its own statements, result ignored) and  *)
(* finally deletes the resource row (result ignored).  Between these steps *)
(* connection threads keep creating collections.                           *)
(*                                                                         *)
(* What deleting a referenced resource row does depends on the foreign key *)
(* the schema declares and the backend enforces: DbInitializer emits the   *)
(* referential actions Cascade, Restrict and SetNull (dbinitializer.h), and *)
(* a backend that does not enforce foreign keys (SQLite by default, MySQL  *)
(* MyISAM) deletes the row regardless ("None").  The schema file is not   *)
(* part of this code, so the deployment's action is chosen in Init.       *)
(*                                                                         *)
(* A collection is a slot holding the name of its resource, NoCol when the *)
(* slot is free, or NullRes when the resource column was set to NULL.      *)
(***************************************************************************)
CONSTANTS
    ResourceNames,      \* resource instance names
    CollectionSlots,    \* collections that may exist
    OnDeleteActions     \* ON DELETE actions the deployed schema and backend may have

ASSUME OnDeleteActions \subseteq {"Cascade", "Restrict", "SetNull", "None"}

NoCol == "NoCol"
NullRes == "NullRes"
NoRemoval == [name |-> NoCol, todo |-> {}]

VARIABLES
    resources,      \* names of the rows of the Resource table
    colRes,         \* resource of each collection, NoCol or NullRes
    removing,       \* a removeResourceInstance() in progress: name, collections left
    onDelete        \* the resource foreign key's ON DELETE as enforced, or "None"

rmvars == <<resources, colRes, removing, onDelete>>

Init ==
    /\ resources = {}
    /\ colRes = [s \in CollectionSlots |-> NoCol]
    /\ removing = NoRemoval
    /\ onDelete \in OnDeleteActions

\* No removeResourceInstance() call is running.
Idle == removing = NoRemoval

\* Collections whose resource column refers to resource n.
CollectionsOf(n) == {s \in CollectionSlots : colRes[s] = n}

(***************************************************************************)
(* addResourceInstance(): in one Transaction, retrieveByName; an existing  *)
(* name is traced and returned from (nothing written); otherwise insert(), *)
(* whose failure is only traced, and commit.                               *)
(***************************************************************************)
AddResourceInstance(n) ==
    /\ n \notin resources
    /\ \/ resources' = resources \cup {n}
       \/ UNCHANGED resources
    /\ UNCHANGED <<colRes, removing, onDelete>>

(***************************************************************************)
(* removeResourceInstance(), up to the loop: retrieveByName and, for a     *)
(* valid resource, the one read of resource.collections().                 *)
(***************************************************************************)
RemoveResourceInstance(n) ==
    /\ n \in resources
    /\ removing' = [name |-> n, todo |-> CollectionsOf(n)]
    /\ UNCHANGED <<resources, colRes, onDelete>>

\* One iteration of Q_FOREACH over the copy: cleanupCollection(), whose
\* failure leaves the collection and is ignored.
CleanupCollection(s) ==
    /\ s \in removing.todo
    /\ \/ colRes' = [colRes EXCEPT ![s] = NoCol]
       \/ UNCHANGED colRes
    /\ removing' = [removing EXCEPT !.todo = @ \ {s}]
    /\ UNCHANGED <<resources, onDelete>>

(***************************************************************************)
(* resource.remove(), its result ignored, and the call returns.  Rows that *)
(* still refer to the resource decide what the backend does.               *)
(***************************************************************************)
RemoveResourceRow ==
    /\ removing # NoRemoval /\ removing.todo = {}
    /\ LET n    == removing.name
           refs == CollectionsOf(n)
       IN  \/ /\ refs = {} \/ onDelete = "None"
              /\ resources' = resources \ {n}
              /\ UNCHANGED colRes
           \/ /\ refs # {} /\ onDelete = "Restrict"
              /\ UNCHANGED <<resources, colRes>>
           \/ /\ refs # {} /\ onDelete \in {"Cascade", "SetNull"}
              /\ resources' = resources \ {n}
              /\ colRes' = [s \in CollectionSlots |->
                              IF s \in refs
                              THEN IF onDelete = "Cascade" THEN NoCol ELSE NullRes
                              ELSE colRes[s]]
    /\ removing' = NoRemoval
    /\ UNCHANGED onDelete

\* A connection's CREATE commits a new collection of a registered resource.
CreateCollection(s, n) ==
    /\ colRes[s] = NoCol /\ n \in resources
    /\ colRes' = [colRes EXCEPT ![s] = n]
    /\ UNCHANGED <<resources, removing, onDelete>>

TypeOK ==
    /\ resources \subseteq ResourceNames
    /\ colRes \in [CollectionSlots -> ResourceNames \cup {NoCol, NullRes}]
    /\ removing \in [name : ResourceNames, todo : SUBSET CollectionSlots]
                      \cup {NoRemoval}
    /\ onDelete \in OnDeleteActions

(***************************************************************************)
(* Every collection belongs to a registered resource: removing a resource  *)
(* takes its collections with it (resourcemanager.cpp:63-69).             *)
(***************************************************************************)
NoOrphanCollections ==
    \A s \in CollectionSlots : colRes[s] # NoCol => colRes[s] \in resources

=============================================================================
