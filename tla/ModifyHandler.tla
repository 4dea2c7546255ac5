---------------------------- MODULE ModifyHandler ----------------------------
(***************************************************************************)
(* The MODIFY command (Modify::parseStream, src/server/src/handler/        *)
(* modify.cpp) run concurrently by several connections against a shared   *)
(* store, with the change notifications it produces travelling through the *)
(* per-transaction collector, the NotificationManager and on to the        *)
(* subscribers (src/server/src/notificationmanager.h).                     *)
(*                                                                         *)
(* One connection runs one command at a time, as the phases of the         *)
(* handler:                                                                *)
(*   Idle --ModifyStart--> [Retrieve --RetrieveDone-->] Loop --Field*-->   *)
(*   --ModifyFinish--> Idle                                                *)
(* and any failing step answers NO and rolls the transaction back.         *)
(*                                                                         *)
(* The backend (DataStore, not under src/) is modelled from spec sections  *)
(* 3 and 5: a transaction's statements are kept as a list of writes `ops`  *)
(* that its own later reads see and that become visible to everyone at     *)
(* commit, all at once; rollback drops them.  The collection object the    *)
(* handler works on (`work`) is read outside the transaction, before it    *)
(* begins, exactly as the code does.                                       *)
(***************************************************************************)
EXTENDS Integers, Sequences, SequencesExt, FiniteSets, TLC

CONSTANTS
    Conns,          \* connections (one handler thread each)
    Cols,           \* collections
    Resources,      \* resources owning collections
    Values,         \* names, remote ids, revisions, policies, queries, attribute values
    MimeTypes,
    AttrTypes,      \* custom attribute types
    Items,
    Subscribers,    \* notification sources registered with the NotificationManager
    NoValue,        \* an absent value; also the parent of a top-level collection
    BadNumber,      \* a PARENT argument that is not a number
    InitCol,        \* the collections' initial rows
    InitItemCol,    \* the collection of each item, NoValue for one not yet synced
    InitAttrs,      \* the attribute rows the store may start with
    ConnResource,   \* the resource a connection's session belongs to, or NoValue
    Commands,       \* the MODIFY argument lists the clients send
    MaxCommands,    \* commands each connection sends
    DbFailures,     \* whether backend statements may fail
    ItemSync        \* whether resources append payload-less items meanwhile

Fields == {"name", "remoteId", "remoteRevision", "cachePolicy", "query",
           "parent", "resource", "mimeTypes"}

ColRec == [name : Values, remoteId : Values, remoteRevision : Values,
           cachePolicy : Values, query : Values, parent : Cols \cup {NoValue},
           resource : Resources, mimeTypes : SUBSET MimeTypes]

\* One parsed "type value" pair of the MODIFY argument line.
Token == [t : {"NAME", "REMOTEID", "REMOTEREVISION", "CACHEPOLICY",
               "PERSISTENTSEARCH", "PARENT", "VIRTUAL", "MIMETYPE",
               "ATTR", "ATTRDEL"},
          k : AttrTypes \cup {NoValue},
          v : Values \cup Cols \cup {NoValue, BadNumber},
          mts : SUBSET MimeTypes]

\* A write statement of a transaction.
Op == [op : {"set", "addMt", "delMt", "insAttr", "updAttr", "delAttr"},
       c : Cols, f : Fields \cup {NoValue}, k : AttrTypes \cup {NoValue},
       v : Values \cup Cols \cup Resources \cup MimeTypes \cup {NoValue}]

\* NotificationMessage, reduced to the fields the hub compares.
Note == [op : {"Modify", "Move"}, id : Cols, session : Conns,
         parts : SUBSET (AttrTypes \cup {"NAME", "REMOTEID", "REMOTEREVISION",
                 "CACHEPOLICY", "PERSISTENTSEARCH", "PARENT", "MIMETYPE"})]

ASSUME /\ InitCol \in [Cols -> ColRec]
       /\ InitItemCol \in [Items -> Cols \cup {NoValue}]
       /\ InitAttrs \subseteq [Cols -> [AttrTypes -> Seq(Values)]]
       /\ ConnResource \in [Conns -> Resources \cup {NoValue}]
       /\ Commands \subseteq Seq(Token)
       /\ MaxCommands \in Nat
       /\ DbFailures \in BOOLEAN /\ ItemSync \in BOOLEAN

VARIABLES
    db,         \* committed store: [col |-> rows, attr |-> attribute rows]
    search,     \* the search manager's persistent query per collection
    itemCol,    \* collection of each item
    cached,     \* whether an item's full payload is in the local cache
    origin,     \* ghost: resource an item was created in
    pc,         \* handler phase per connection
    sent,       \* commands sent per connection
    resp,       \* last response per connection
    target,     \* the collection the scope resolved to
    tokens,     \* the argument pairs still to parse
    work,       \* the in-memory Collection object of the handler
    dirty,      \* its fields set since it was read (hasPendingChanges)
    ops,        \* the open transaction's writes
    changes,    \* the QList<QByteArray> changes
    notes,      \* the notification collector of the transaction
    posted,     \* collector batches queued to the NotificationManager thread
    pending,    \* NotificationManager::mNotifications
    inbox,      \* batches emitted to each subscriber, not yet processed
    view        \* each subscriber's copy of the collections

handler == <<pc, sent, resp, target, tokens, work, dirty, ops, changes, notes>>
hub == <<posted, pending, inbox, view>>
store == <<db, search, itemCol, cached, origin>>
vars == <<store, handler, hub>>

----------------------------------------------------------------------------
(* The backend.                                                             *)

SetOp(c, f, v) == [op |-> "set", c |-> c, f |-> f, k |-> NoValue, v |-> v]
MtOp(o, c, m)  == [op |-> o, c |-> c, f |-> NoValue, k |-> NoValue, v |-> m]
AttrOp(o, c, k, v) == [op |-> o, c |-> c, f |-> NoValue, k |-> k, v |-> v]

ApplyOp(d, o) ==
    CASE o.op = "set"     -> [d EXCEPT !.col[o.c][o.f] = o.v]
      [] o.op = "addMt"   -> [d EXCEPT !.col[o.c].mimeTypes = @ \cup {o.v}]
      [] o.op = "delMt"   -> [d EXCEPT !.col[o.c].mimeTypes = @ \ {o.v}]
      [] o.op = "insAttr" -> [d EXCEPT !.attr[o.c][o.k] = Append(@, o.v)]
      [] o.op = "updAttr" -> [d EXCEPT !.attr[o.c][o.k] =
                                  IF @ = <<>> THEN @ ELSE [@ EXCEPT ![1] = o.v]]
      [] o.op = "delAttr" -> [d EXCEPT !.attr[o.c][o.k] = <<>>]

ApplyOps(d, s) == FoldLeft(ApplyOp, d, s)

\* What connection `x` reads: the committed store and its own writes.
Visible(x) == ApplyOps(db, ops[x])

RECURSIVE IsUnder(_, _, _)
IsUnder(d, x, c) ==
    \/ x = c
    \/ d.col[x].parent # NoValue /\ IsUnder(d, d.col[x].parent, c)

Subtree(d, c) == {x \in Cols : IsUnder(d, x, c)}

\* CollectionQueryHelper::hasAllowedName: no other child of `parent` has `name`.
HasAllowedName(d, c, name, parent) ==
    ~\E s \in Cols \ {c} : d.col[s].parent = parent /\ d.col[s].name = name

\* DataStore::moveCollection refuses to move a collection below itself.
CanBeMovedTo(d, c, p) == ~IsUnder(d, p, c)

(* NotificationMessage::appendAndCompress (spec 4.4): a Modify of the same  *)
(* collection from the same session merges into the earlier entry, the     *)
(* changed parts united; anything else is appended.                        *)
AppendAndCompress(list, n) ==
    LET same == {j \in 1..Len(list) :
                   /\ list[j].op = "Modify" /\ n.op = "Modify"
                   /\ list[j].id = n.id /\ list[j].session = n.session}
    IN  IF same = {} THEN Append(list, n)
        ELSE LET j == CHOOSE x \in same : TRUE
             IN  [list EXCEPT ![j].parts = @ \cup n.parts]

----------------------------------------------------------------------------
Init ==
    /\ \E a \in InitAttrs : db = [col |-> InitCol, attr |-> a]
    /\ search = [c \in Cols |-> InitCol[c].query]
    /\ itemCol = InitItemCol
    /\ cached \in [Items -> BOOLEAN]
    /\ origin = [i \in Items |-> IF InitItemCol[i] = NoValue THEN NoValue
                                 ELSE InitCol[InitItemCol[i]].resource]
    /\ pc = [x \in Conns |-> "Idle"]
    /\ sent = [x \in Conns |-> 0]
    /\ resp = [x \in Conns |-> "none"]
    /\ target = [x \in Conns |-> CHOOSE c \in Cols : TRUE]
    /\ tokens = [x \in Conns |-> <<>>]
    /\ work = [x \in Conns |-> InitCol[target[x]]]
    /\ dirty = [x \in Conns |-> {}]
    /\ ops = [x \in Conns |-> <<>>]
    /\ changes = [x \in Conns |-> {}]
    /\ notes = [x \in Conns |-> <<>>]
    /\ posted = <<>>
    /\ pending = <<>>
    /\ inbox = [s \in Subscribers |-> <<>>]
    /\ view = [s \in Subscribers |-> [c \in Cols |-> [col |-> InitCol[c], attr |-> db.attr[c]]]]

----------------------------------------------------------------------------
(* Steps shared by the handler's actions.                                  *)

Tok(x) == Head(tokens[x])

\* The value of the first PARENT pair: the look-ahead of line.indexOf("PARENT ").
FirstParent(cmd) ==
    LET js == {j \in 1..Len(cmd) : cmd[j].t = "PARENT"}
    IN  IF js = {} THEN NoValue
        ELSE cmd[CHOOSE j \in js : \A h \in js : j <= h].v

\* The pre-check of parseStream: the new parent is valid, differs from the
\* current one and belongs to another resource.
NeedsRetrieval(col, cmd) ==
    LET p == FirstParent(cmd)
    IN  /\ p \in Cols
        /\ col.parent # p
        /\ col.resource # db.col[p].resource

\* A failureResponse or a HandlerException: the Transaction goes out of
\* scope uncommitted and rolls back, the collector's notifications with it.
Fail(x) ==
    /\ pc' = [pc EXCEPT ![x] = "Idle"]
    /\ resp' = [resp EXCEPT ![x] = "NO"]
    /\ ops' = [ops EXCEPT ![x] = <<>>]
    /\ notes' = [notes EXCEPT ![x] = <<>>]
    /\ UNCHANGED <<sent, target, tokens, work, dirty, changes>>

\* The pair was parsed; the loop goes on with the next one.
Continue(x) == tokens' = [tokens EXCEPT ![x] = Tail(@)]

\* The in-memory collection takes value v for field f and is marked dirty.
SetField(x, f, v) ==
    /\ work' = [work EXCEPT ![x][f] = v]
    /\ dirty' = [dirty EXCEPT ![x] = @ \cup {f}]

AddChange(x, part) == changes' = [changes EXCEPT ![x] = @ \cup {part}]

----------------------------------------------------------------------------
(* Modify::parseStream up to the Transaction: resolve the scope, read the  *)
(* collection, look ahead for PARENT.  `S` is what the scope query returns; *)
(* a failing query, no collection or several throw before any write.       *)
ModifyStart(x, cmd, S) ==
    /\ pc[x] = "Idle"
    /\ sent[x] < MaxCommands
    /\ sent' = [sent EXCEPT ![x] = @ + 1]
    /\ \/ /\ DbFailures \/ Cardinality(S) # 1
          /\ resp' = [resp EXCEPT ![x] = "NO"]
          /\ UNCHANGED <<pc, target, tokens, work, dirty, ops, changes, notes>>
       \/ /\ Cardinality(S) = 1
          /\ LET c == CHOOSE y \in S : TRUE
             IN  /\ target' = [target EXCEPT ![x] = c]
                 /\ work' = [work EXCEPT ![x] = db.col[c]]
                 /\ pc' = [pc EXCEPT ![x] =
                             IF NeedsRetrieval(db.col[c], cmd) THEN "Retrieve"
                             ELSE "Loop"]
          /\ tokens' = [tokens EXCEPT ![x] = cmd]
          /\ dirty' = [dirty EXCEPT ![x] = {}]
          /\ ops' = [ops EXCEPT ![x] = <<>>]
          /\ changes' = [changes EXCEPT ![x] = {}]
          /\ notes' = [notes EXCEPT ![x] = <<>>]
          /\ UNCHANGED resp
    /\ UNCHANGED <<store, hub>>

(* ItemRetriever::exec() for the collection and its subtree, full payload:  *)
(* every item in the subtree when the retrieval runs gets its payload.     *)
(* It either succeeds, and the Transaction begins, or fails (an error of    *)
(* the resource or the retrieval timeout) and the command answers NO.      *)
RetrieveDone(x) ==
    /\ pc[x] = "Retrieve"
    /\ \/ /\ cached' = [i \in Items |->
                          cached[i] \/ itemCol[i] \in Subtree(db, target[x])]
          /\ pc' = [pc EXCEPT ![x] = "Loop"]
          /\ UNCHANGED <<db, search, itemCol, origin, sent, resp, target, tokens,
                         work, dirty, ops, changes, notes>>
       \/ /\ Fail(x)
          /\ UNCHANGED store
    /\ UNCHANGED hub

----------------------------------------------------------------------------
(* One pair of the argument line per step, inside the Transaction.  Each   *)
(* action is one branch of the parsing loop, guarded by the pair's type.   *)

LoopAt(x, kind) ==
    /\ pc[x] = "Loop"
    /\ tokens[x] # <<>>
    /\ Tok(x).t = kind

\* The loop step changes only the handler's own state.
LoopOnly == UNCHANGED <<store, hub, pc, sent, resp, target>>

\* MIMETYPE (list): drop the current types not listed, add the listed ones.
FieldMimeType(x) ==
    /\ LoopAt(x, "MIMETYPE")
    /\ LET c       == target[x]
           cur     == Visible(x).col[c].mimeTypes
           removed == cur \ Tok(x).mts
           added   == Tok(x).mts \ cur
       IN  /\ ops' = [ops EXCEPT ![x] = @
                        \o SetToSeq({MtOp("delMt", c, m) : m \in removed})
                        \o SetToSeq({MtOp("addMt", c, m) : m \in added})]
           /\ changes' = [changes EXCEPT ![x] =
                            IF removed \cup added # {} THEN @ \cup {"MIMETYPE"} ELSE @]
    /\ Continue(x)
    /\ UNCHANGED <<work, dirty, notes>>
    /\ LoopOnly

\* CACHEPOLICY (...): parseCachePolicy sets the policy, `changed` if it differs.
FieldCachePolicy(x) ==
    /\ LoopAt(x, "CACHEPOLICY")
    /\ IF work[x].cachePolicy # Tok(x).v
       THEN SetField(x, "cachePolicy", Tok(x).v) /\ AddChange(x, "CACHEPOLICY")
       ELSE UNCHANGED <<work, dirty, changes>>
    /\ Continue(x)
    /\ UNCHANGED <<ops, notes>>
    /\ LoopOnly

FieldNameMutant(x) ==
    /\ LoopAt(x, "NAME")
    /\ LET v == Tok(x).v
       IN  \/ /\ v = work[x].name
              /\ UNCHANGED <<tokens, work, dirty, changes, ops, notes>>
              /\ LoopOnly
           \/ /\ v # work[x].name
              /\ ~HasAllowedName(Visible(x), target[x], v, work[x].parent)
              /\ Fail(x)
              /\ UNCHANGED <<store, hub>>
           \/ /\ v # work[x].name
              /\ HasAllowedName(Visible(x), target[x], v, work[x].parent)
              /\ SetField(x, "name", v)
              /\ AddChange(x, "NAME")
              /\ Continue(x)
              /\ UNCHANGED <<ops, notes>>
              /\ LoopOnly

\* NAME: unchanged name, continue; a sibling under the parent the in-memory
\* collection names already has it, throw; else rename.
FieldName(x) ==
    /\ LoopAt(x, "NAME")
    /\ LET v == Tok(x).v
       IN  \/ /\ v = work[x].name
              /\ Continue(x)
              /\ UNCHANGED <<work, dirty, changes, ops, notes>>
              /\ LoopOnly
           \/ /\ v # work[x].name
              /\ ~HasAllowedName(Visible(x), target[x], v, work[x].parent)
              /\ Fail(x)
              /\ UNCHANGED <<store, hub>>
           \/ /\ v # work[x].name
              /\ HasAllowedName(Visible(x), target[x], v, work[x].parent)
              /\ SetField(x, "name", v)
              /\ AddChange(x, "NAME")
              /\ Continue(x)
              /\ UNCHANGED <<ops, notes>>
              /\ LoopOnly

MoveCollectionWrongResource(x, v) ==
    LET c == target[x]
        r == Visible(x).col[v].resource
    IN  /\ ops' = [ops EXCEPT ![x] = @ \o <<SetOp(c, "parent", v),
                                           SetOp(c, "resource", v)>>]
        /\ work' = [work EXCEPT ![x].parent = v, ![x].resource = v]
        /\ notes' = [notes EXCEPT ![x] = Append(@,
                       [op |-> "Move", id |-> c, session |-> x, parts |-> {}])]
        /\ AddChange(x, "PARENT")
        /\ Continue(x)
        /\ UNCHANGED dirty
        /\ LoopOnly

MoveCollectionUnannounced(x, v) ==
    LET c == target[x]
        r == Visible(x).col[v].resource
    IN  /\ ops' = [ops EXCEPT ![x] = @ \o <<SetOp(c, "parent", v),
                                           SetOp(c, "resource", r)>>]
        /\ work' = [work EXCEPT ![x].parent = v, ![x].resource = r]
        /\ notes' = [notes EXCEPT ![x] = Append(@,
                       [op |-> "Move", id |-> c, session |-> x, parts |-> {}])]
        /\ UNCHANGED changes
        /\ Continue(x)
        /\ UNCHANGED dirty
        /\ LoopOnly

(* A successful DataStore::moveCollection: the row takes the new parent    *)
(* and that parent's resource, so does the in-memory collection, and a     *)
(* Move notification is collected; then changes.append("PARENT").         *)
MoveCollection(x, v) ==
    LET c == target[x]
        r == Visible(x).col[v].resource
    IN  /\ ops' = [ops EXCEPT ![x] = @ \o <<SetOp(c, "parent", v),
                                           SetOp(c, "resource", r)>>]
        /\ work' = [work EXCEPT ![x].parent = v, ![x].resource = r]
        /\ notes' = [notes EXCEPT ![x] = Append(@,
                       [op |-> "Move", id |-> c, session |-> x, parts |-> {}])]
        /\ AddChange(x, "PARENT")
        /\ Continue(x)
        /\ UNCHANGED dirty
        /\ LoopOnly

(* PARENT: not a number, NO; the current parent, continue; otherwise       *)
(* DataStore::moveCollection, which writes the parent and the new parent's  *)
(* resource into the row and the in-memory collection and collects a Move  *)
(* notification, or refuses a move below the collection itself.           *)
FieldParent(x) ==
    /\ LoopAt(x, "PARENT")
    /\ LET v == Tok(x).v
           c == target[x]
       IN  \/ /\ v = BadNumber
              /\ Fail(x)
              /\ UNCHANGED <<store, hub>>
           \/ /\ v = work[x].parent
              /\ Continue(x)
              /\ UNCHANGED <<work, dirty, changes, ops, notes>>
              /\ LoopOnly
           \/ /\ v \in Cols /\ v # work[x].parent
              /\ ~CanBeMovedTo(Visible(x), c, v)
              /\ Fail(x)
              /\ UNCHANGED <<store, hub>>
           \/ /\ v \in Cols /\ v # work[x].parent
              /\ CanBeMovedTo(Visible(x), c, v)
              /\ MoveCollection(x, v)

\* VIRTUAL: always refused.
FieldVirtual(x) ==
    /\ LoopAt(x, "VIRTUAL")
    /\ Fail(x)
    /\ UNCHANGED <<store, hub>>

\* REMOTEID: unchanged, continue; a session not of the collection's
\* resource, throw; else set it.
FieldRemoteId(x) ==
    /\ LoopAt(x, "REMOTEID")
    /\ \/ /\ Tok(x).v = work[x].remoteId
          /\ Continue(x)
          /\ UNCHANGED <<work, dirty, changes, ops, notes>>
          /\ LoopOnly
       \/ /\ Tok(x).v # work[x].remoteId
          /\ ConnResource[x] # work[x].resource
          /\ Fail(x)
          /\ UNCHANGED <<store, hub>>
       \/ /\ Tok(x).v # work[x].remoteId
          /\ ConnResource[x] = work[x].resource
          /\ SetField(x, "remoteId", Tok(x).v)
          /\ AddChange(x, "REMOTEID")
          /\ Continue(x)
          /\ UNCHANGED <<ops, notes>>
          /\ LoopOnly

FieldRemoteRevisionMutant(x) ==
    /\ LoopAt(x, "REMOTEREVISION")
    /\ IF Tok(x).v = work[x].remoteRevision
       THEN UNCHANGED <<work, dirty, changes>>
       ELSE SetField(x, "remoteRevision", Tok(x).v)
            /\ UNCHANGED changes
    /\ Continue(x)
    /\ UNCHANGED <<ops, notes>>
    /\ LoopOnly

\* REMOTEREVISION: unchanged, continue; else set it.
FieldRemoteRevision(x) ==
    /\ LoopAt(x, "REMOTEREVISION")
    /\ IF Tok(x).v = work[x].remoteRevision
       THEN UNCHANGED <<work, dirty, changes>>
       ELSE SetField(x, "remoteRevision", Tok(x).v) /\ AddChange(x, "REMOTEREVISION")
    /\ Continue(x)
    /\ UNCHANGED <<ops, notes>>
    /\ LoopOnly

(* PERSISTENTSEARCH: a different query is set on the in-memory collection  *)
(* and handed at once to SearchManager::updateSearch, which changes the     *)
(* search engine's state outside the Transaction.                          *)
FieldPersistentSearch(x) ==
    /\ LoopAt(x, "PERSISTENTSEARCH")
    /\ IF Tok(x).v # work[x].query
       THEN /\ SetField(x, "query", Tok(x).v)
            /\ search' = [search EXCEPT ![target[x]] = Tok(x).v]
            /\ AddChange(x, "PERSISTENTSEARCH")
       ELSE UNCHANGED <<work, dirty, changes, search>>
    /\ Continue(x)
    /\ UNCHANGED <<db, itemCol, cached, origin, ops, notes>>
    /\ UNCHANGED <<hub, pc, sent, resp, target>>

(* "-type": DataStore::removeCollectionAttribute deletes the rows and      *)
(* returns whether it did; `false` (nothing there, or the delete failed)   *)
(* is no change and no error.                                              *)
FieldAttributeRemove(x) ==
    /\ LoopAt(x, "ATTRDEL")
    /\ LET k == Tok(x).k
           c == target[x]
       IN  \/ /\ Visible(x).attr[c][k] # <<>>
              /\ ops' = [ops EXCEPT ![x] = Append(@, AttrOp("delAttr", c, k, NoValue))]
              /\ AddChange(x, k)
           \/ /\ Visible(x).attr[c][k] = <<>> \/ DbFailures
              /\ UNCHANGED <<ops, changes>>
    /\ Continue(x)
    /\ UNCHANGED <<work, dirty, notes>>
    /\ LoopOnly

(* "type value": select the collection's rows of that type; none, insert   *)
(* one; one with the same value, continue; one, update it; more, throw.    *)
FieldAttribute(x) ==
    /\ LoopAt(x, "ATTR")
    /\ LET k    == Tok(x).k
           v    == Tok(x).v
           c    == target[x]
           rows == Visible(x).attr[c][k]
       IN  \/ /\ rows = <<>>
              /\ ops' = [ops EXCEPT ![x] = Append(@, AttrOp("insAttr", c, k, v))]
              /\ AddChange(x, k)
              /\ Continue(x)
              /\ UNCHANGED <<work, dirty, notes>>
              /\ LoopOnly
           \/ /\ Len(rows) = 1 /\ rows[1] = v
              /\ Continue(x)
              /\ UNCHANGED <<work, dirty, changes, ops, notes>>
              /\ LoopOnly
           \/ /\ Len(rows) = 1 /\ rows[1] # v
              /\ ops' = [ops EXCEPT ![x] = Append(@, AttrOp("updAttr", c, k, v))]
              /\ AddChange(x, k)
              /\ Continue(x)
              /\ UNCHANGED <<work, dirty, notes>>
              /\ LoopOnly
           \/ /\ Len(rows) > 1
              /\ Fail(x)
              /\ UNCHANGED <<store, hub>>

(* A statement of the current pair fails: removeMimeType or                *)
(* appendMimeTypeForCollection, moveCollection, or the attribute select,   *)
(* insert or update.  Each answers NO and rolls back.                      *)
FieldStatementFails(x) ==
    /\ DbFailures
    /\ pc[x] = "Loop" /\ tokens[x] # <<>>
    /\ LET t   == Tok(x)
           cur == Visible(x).col[target[x]].mimeTypes
       IN  \/ t.t = "MIMETYPE" /\ cur # t.mts
           \/ t.t = "PARENT" /\ t.v \in Cols /\ t.v # work[x].parent
           \/ t.t = "ATTR"
    /\ Fail(x)
    /\ UNCHANGED <<store, hub>>

----------------------------------------------------------------------------
(* After the loop.                                                          *)

\* Collection::update() writes the dirty columns of the in-memory collection.
UpdateOps(x) ==
    LET fs == SetToSeq(dirty[x])
    IN  [j \in DOMAIN fs |-> SetOp(target[x], fs[j], work[x][fs[j]])]

\* The collectionChanged notification of the command.
ChangedNote(x) ==
    [op |-> "Modify", id |-> target[x], session |-> x, parts |-> changes[x]]

ModifyFinishMutant(x) ==
    /\ pc[x] = "Loop" /\ tokens[x] = <<>>
    /\ IF changes[x] = {}
       THEN UNCHANGED <<db, posted>>
       ELSE /\ db' = ApplyOps(db, ops[x] \o UpdateOps(x))
            /\ posted' = Append(posted, notes[x])
    /\ pc' = [pc EXCEPT ![x] = "Idle"]
    /\ resp' = [resp EXCEPT ![x] = "OK"]
    /\ ops' = [ops EXCEPT ![x] = <<>>]
    /\ notes' = [notes EXCEPT ![x] = <<>>]
    /\ UNCHANGED <<search, itemCol, cached, origin, pending, inbox, view>>
    /\ UNCHANGED <<sent, target, tokens, work, dirty, changes>>

(* No change: "MODIFY done" without a commit.  Otherwise update() the      *)
(* collection, add collectionChanged to the collector and commit: the      *)
(* writes become visible and the collector's batch is handed to the        *)
(* NotificationManager; then "MODIFY done".                                *)
ModifyFinish(x) ==
    /\ pc[x] = "Loop" /\ tokens[x] = <<>>
    /\ IF changes[x] = {}
       THEN UNCHANGED <<db, posted>>
       ELSE /\ db' = ApplyOps(db, ops[x] \o UpdateOps(x))
            /\ posted' = Append(posted, notes[x] \o <<ChangedNote(x)>>)
    /\ pc' = [pc EXCEPT ![x] = "Idle"]
    /\ resp' = [resp EXCEPT ![x] = "OK"]
    /\ ops' = [ops EXCEPT ![x] = <<>>]
    /\ notes' = [notes EXCEPT ![x] = <<>>]
    /\ UNCHANGED <<search, itemCol, cached, origin, pending, inbox, view>>
    /\ UNCHANGED <<sent, target, tokens, work, dirty, changes>>

\* update() or commit() fails: NO, and the transaction rolls back.
ModifyFinishFails(x) ==
    /\ DbFailures
    /\ pc[x] = "Loop" /\ tokens[x] = <<>> /\ changes[x] # {}
    /\ Fail(x)
    /\ UNCHANGED <<store, hub>>

----------------------------------------------------------------------------
(* The NotificationManager (main thread) and its subscribers.              *)

\* What a subscriber learns by fetching a collection.
Fetch(c) == [col |-> db.col[c], attr |-> db.attr[c]]

NotifyReceiveMutant ==
    /\ posted # <<>>
    /\ pending' = Head(posted)
    /\ posted' = Tail(posted)
    /\ UNCHANGED <<store, handler, inbox, view>>

(* slotNotify: the batch a committed collector emitted, queued across      *)
(* threads in emission order, is merged into mNotifications.               *)
NotifyReceive ==
    /\ posted # <<>>
    /\ pending' = FoldLeft(AppendAndCompress, pending, Head(posted))
    /\ posted' = Tail(posted)
    /\ UNCHANGED <<store, handler, inbox, view>>

EmitPendingNotificationsMutant ==
    /\ Len(pending) > 1
    /\ inbox' = [s \in Subscribers |-> inbox[s] \o pending]
    /\ pending' = <<>>
    /\ UNCHANGED <<store, handler, posted, view>>

(* emitPendingNotifications, on mTimer: a non-empty batch goes, as one     *)
(* copy, to every NotificationSource, and mNotifications is cleared.       *)
EmitPendingNotifications ==
    /\ pending # <<>>
    /\ inbox' = [s \in Subscribers |-> inbox[s] \o pending]
    /\ pending' = <<>>
    /\ UNCHANGED <<store, handler, posted, view>>

\* A subscriber handles one notification by fetching the collection anew.
SubscriberFetch(s) ==
    /\ inbox[s] # <<>>
    /\ view' = [view EXCEPT ![s][Head(inbox[s]).id] = Fetch(Head(inbox[s]).id)]
    /\ inbox' = [inbox EXCEPT ![s] = Tail(@)]
    /\ UNCHANGED <<store, handler, posted, pending>>

(* A resource's item sync, in its own transaction, appends an item without *)
(* payload to a collection of that resource.                               *)
ItemSyncAdd(i, c) ==
    /\ ItemSync
    /\ itemCol[i] = NoValue
    /\ itemCol' = [itemCol EXCEPT ![i] = c]
    /\ cached' = [cached EXCEPT ![i] = FALSE]
    /\ origin' = [origin EXCEPT ![i] = db.col[c].resource]
    /\ UNCHANGED <<db, search, handler, hub>>

----------------------------------------------------------------------------
\* Every step the handler thread of connection x takes on its own.
ConnStep(x) ==
    \/ RetrieveDone(x)
    \/ FieldMimeType(x)
    \/ FieldCachePolicy(x)
    \/ FieldName(x)
    \/ FieldParent(x)
    \/ FieldVirtual(x)
    \/ FieldRemoteId(x)
    \/ FieldRemoteRevision(x)
    \/ FieldPersistentSearch(x)
    \/ FieldAttributeRemove(x)
    \/ FieldAttribute(x)
    \/ FieldStatementFails(x)
    \/ ModifyFinish(x)
    \/ ModifyFinishFails(x)

Next ==
    \/ \E x \in Conns :
          \/ \E cmd \in Commands, S \in SUBSET Cols : ModifyStart(x, cmd, S)
          \/ ConnStep(x)
    \/ NotifyReceive
    \/ EmitPendingNotifications
    \/ \E s \in Subscribers : SubscriberFetch(s)
    \/ \E i \in Items, c \in Cols : ItemSyncAdd(i, c)

(* Each handler thread runs once it has work (a backend statement returns, *)
(* and a retrieval ends in its result or its timeout); the manager's       *)
(* queued slot and its timer fire; subscribers read their channel.  Clients *)
(* and resources are not obliged to send anything.                         *)
Fairness ==
    /\ \A x \in Conns : WF_vars(ConnStep(x))
    /\ WF_vars(NotifyReceive)
    /\ WF_vars(EmitPendingNotifications)
    /\ \A s \in Subscribers : WF_vars(SubscriberFetch(s))

Spec == Init /\ [][Next]_vars /\ Fairness

----------------------------------------------------------------------------
(* Properties.                                                              *)

TypeOK ==
    /\ db.col \in [Cols -> ColRec]
    /\ db.attr \in [Cols -> [AttrTypes -> Seq(Values)]]
    /\ search \in [Cols -> Values]
    /\ itemCol \in [Items -> Cols \cup {NoValue}]
    /\ cached \in [Items -> BOOLEAN]
    /\ pc \in [Conns -> {"Idle", "Retrieve", "Loop"}]
    /\ sent \in [Conns -> 0..MaxCommands]
    /\ resp \in [Conns -> {"none", "OK", "NO"}]
    /\ target \in [Conns -> Cols]
    /\ work \in [Conns -> ColRec]
    /\ dirty \in [Conns -> SUBSET Fields]
    /\ \A x \in Conns : ops[x] \in Seq(Op) /\ notes[x] \in Seq(Note)
    /\ posted \in Seq(Seq(Note))
    /\ pending \in Seq(Note)
    /\ inbox \in [Subscribers -> Seq(Note)]

\* The changed part a protocol client sees for each column of the row.
PartOf(f) ==
    CASE f = "name" -> "NAME"
      [] f = "remoteId" -> "REMOTEID"
      [] f = "remoteRevision" -> "REMOTEREVISION"
      [] f = "cachePolicy" -> "CACHEPOLICY"
      [] f = "query" -> "PERSISTENTSEARCH"
      [] f \in {"parent", "resource"} -> "PARENT"
      [] f = "mimeTypes" -> "MIMETYPE"

\* The parts of collection c that the current step changes in the store.
ChangedParts(c) ==
    {PartOf(f) : f \in {g \in Fields : db'.col[c][g] # db.col[c][g]}}
      \cup {k \in AttrTypes : db'.attr[c][k] # db.attr[c][k]}

(***************************************************************************)
(* Every change a MODIFY makes to a collection's row, mime types or        *)
(* attributes becomes visible in the same step as a collectionChanged      *)
(* notification of that collection that names each changed part: each      *)
(* branch of the parsing loop records its part in `changes`, and nothing   *)
(* is written without a commit that carries it (spec 4.5, 4.4).            *)
(***************************************************************************)
ChangesAnnounced ==
    [][\A c \in Cols :
         ChangedParts(c) # {} =>
            /\ Len(posted') = Len(posted) + 1
            /\ \E n \in ToSet(Last(posted')) :
                  n.op = "Modify" /\ n.id = c /\ ChangedParts(c) \subseteq n.parts
      ]_vars

\* No notification is on its way from the collectors to the subscribers.
Quiescent ==
    /\ posted = <<>>
    /\ pending = <<>>
    /\ \A s \in Subscribers : inbox[s] = <<>>

Converged == \A s \in Subscribers, c \in Cols : view[s][c] = Fetch(c)

(***************************************************************************)
(* A subscriber that fetches every collection it is notified about holds   *)
(* the stored state of every collection once all notifications have been   *)
(* handled: no committed change goes unannounced, the collector batches    *)
(* reach the manager after their commit, and the manager's compression and *)
(* timer flush lose no collection (spec 4.4, 5, 7).                        *)
(***************************************************************************)
SubscribersConverge == Quiescent => Converged

(***************************************************************************)
(* Every MODIFY a connection starts ends in a response: the retrieval ends *)
(* in its result or its timeout and the parsing loop consumes a pair in    *)
(* every iteration, `continue` included (spec 7: one terminal response     *)
(* per command).                                                           *)
(***************************************************************************)
CommandsComplete == \A x \in Conns : (pc[x] # "Idle") ~> (pc[x] = "Idle")

(***************************************************************************)
(* Whenever no MODIFY is in progress, the search manager runs the query    *)
(* stored with each collection: a command that answers NO leaves no trace  *)
(* (spec 7: a reported failure implies zero persisted side effects).       *)
(***************************************************************************)
SearchMatchesStore ==
    (\A x \in Conns : pc[x] = "Idle") =>
        \A c \in Cols : search[c] = db.col[c].query

(***************************************************************************)
(* An item in a collection now owned by another resource than the one it   *)
(* was created in has its full payload locally: MODIFY retrieves the       *)
(* subtree's payloads before moving a collection across resources (spec    *)
(* 5), since the old resource can no longer deliver them.                  *)
(***************************************************************************)
MovedItemsHavePayload ==
    \A i \in Items :
        itemCol[i] # NoValue /\ db.col[itemCol[i]].resource # origin[i] => cached[i]

----------------------------------------------------------------------------
(***************************************************************************)
(* The notification path implements NotificationHub.  A subscriber is     *)
(* owed a collection while a notification of it is in a collector batch   *)
(* queued to the manager, in mNotifications, or in the subscriber's        *)
(* channel; the store is what a subscriber would fetch.                    *)
(***************************************************************************)
InFlight(s) ==
    ToSet(inbox[s]) \cup ToSet(pending)
      \cup UNION {ToSet(posted[j]) : j \in DOMAIN posted}

Hub == INSTANCE NotificationHub
         WITH States <- [col : ColRec, attr : [AttrTypes -> Seq(Values)]],
              store <- [c \in Cols |-> Fetch(c)],
              owed <- [s \in Subscribers |-> {n.id : n \in InFlight(s)}]

(***************************************************************************)
(* The collectors, slotNotify's compression, the timer flush and the       *)
(* subscribers' fetches together behave as the hub: every commit owes each *)
(* subscriber a notice of every collection it changed, no owed collection  *)
(* is dropped on the way (compression merges, it never loses an id), and   *)
(* each is eventually delivered and fetched.                               *)
(***************************************************************************)
HubSpec == Hub!Spec

====
