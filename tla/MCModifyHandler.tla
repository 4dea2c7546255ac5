--------------------------- MODULE MCModifyHandler ---------------------------
(* Instances of ModifyHandler for TLC: two collections, each the top-level  *)
(* collection of its own resource, two connections (one of them the        *)
(* session of resource r1), one subscriber.                                *)
EXTENDS ModifyHandler

CONSTANTS k1, k2, c1, c2, c3, r1, r2, v1, v2, v3, m1, attrA, i1, s1

Row(name, res, mts) ==
    [name |-> name, remoteId |-> v1, remoteRevision |-> v1, cachePolicy |-> v1,
     query |-> v1, parent |-> NoValue, resource |-> res, mimeTypes |-> mts]

MCInitCol == [c \in Cols |-> CASE c = c1 -> Row(v1, r1, {m1})
                               [] c = c2 -> Row(v2, r2, {})
                               [] c = c3 -> Row(v3, r1, {})]
MCInitItemCol == [i \in {i1} |-> c1]
MCNoItem == [i \in {i1} |-> NoValue]

(* The attribute rows: none, or the two rows of type attrA that two        *)
(* concurrent first inserts into c1 leave behind (both select no row, both *)
(* insert), which a later command reads back as "more than one".           *)
MCNoAttrs == [c \in Cols |-> [a \in {attrA} |-> <<>>]]
MCInitAttrs == {MCNoAttrs, [MCNoAttrs EXCEPT ![c1][attrA] = <<v1, v2>>]}
MCNoAttrSet == {MCNoAttrs}
MCConnResource == [x \in {k1, k2} |-> IF x = k1 THEN r1 ELSE NoValue]

\* A pair of the MODIFY argument line.
Tk(t, v) == [t |-> t, k |-> NoValue, v |-> v, mts |-> {}]
AttrTk(t, v) == [t |-> t, k |-> attrA, v |-> v, mts |-> {}]
MimeTk(mts) == [t |-> "MIMETYPE", k |-> NoValue, v |-> NoValue, mts |-> mts]

\* Commands that touch every branch of the parsing loop.
MCFieldCommands ==
    { <<Tk("NAME", v3)>>, <<Tk("NAME", v1)>>,
      <<Tk("REMOTEID", v2)>>, <<Tk("REMOTEID", v1)>>,
      <<Tk("CACHEPOLICY", v2), Tk("REMOTEREVISION", v2)>>,
      <<Tk("REMOTEREVISION", v1)>>, <<Tk("CACHEPOLICY", v1)>>,
      <<Tk("PERSISTENTSEARCH", v2)>>, <<Tk("PERSISTENTSEARCH", v1)>>,
      <<AttrTk("ATTR", v2)>>, <<AttrTk("ATTR", v3)>>, <<AttrTk("ATTRDEL", NoValue)>>,
      <<MimeTk({})>>, <<MimeTk({m1})>>, <<Tk("VIRTUAL", NoValue)>> }

\* Commands that move collections.
MCMoveCommands ==
    { <<Tk("PARENT", c1)>>, <<Tk("PARENT", c2)>>, <<Tk("PARENT", BadNumber)>>,
      <<Tk("PARENT", c2), Tk("NAME", v3)>> }

\* Both kinds, checked together.
MCModifyCommands == MCFieldCommands \cup MCMoveCommands

\* A persistent search change followed by a refused pair.
MCSearchCommands == { <<Tk("PERSISTENTSEARCH", v2), Tk("VIRTUAL", NoValue)>> }
\* Attribute commands, two per connection, so that rows written
\* concurrently are read back.
MCAttributeCommands ==
    { <<AttrTk("ATTR", v2)>>, <<AttrTk("ATTR", v3)>>, <<AttrTk("ATTRDEL", NoValue)>> }
====
