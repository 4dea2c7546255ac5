------------------------------- MODULE ImapSet -------------------------------
(***************************************************************************)
(* ImapInterval / ImapSet of src/libs/imapset.cpp: the range set a handler *)
(* builds while parsing ("these items") and renders in the IMAP sequence   *)
(* set syntax  range *("," range),  range = id | id ":" id | id ":" "*".  *)
(*                                                                         *)
(* The state is the ImapSet's interval list d->intervals.  The two adding  *)
(* operations are actions; the rendering toImapSequenceSet() and a decoder *)
(* of the wire grammar of spec section 6 are operators.  A ghost variable  *)
(* `covered` records which ids the callers asked the set to denote, and    *)
(* `lastAdd` the input and output of the latest add(values) call, so that  *)
(* the grouping loop can be compared with its reference definition.        *)
(*                                                                         *)
(* Data abstraction: a rendered number is one token carrying its value.    *)
(* QByteArray::number writes the decimal digits, with a leading '-' for a  *)
(* negative value; the grammar's `id` is a string of digits, so the        *)
(* decoder reads a number token back only when its value is positive.      *)
(***************************************************************************)
EXTENDS Integers, Sequences, SequencesExt, FiniteSets, TLC

CONSTANTS
    Ids,            \* the ids (ImapInterval::Id, a qint64) callers pass in
    IntBits,        \* width of the C++ `int` the add() loop narrows ids to
    MaxValues,      \* longest value list given to one add(values) call
    MaxIntervals,   \* bound on the length of d->intervals
    OpenIntervals   \* whether callers add intervals with an undefined end

ASSUME /\ Ids \subseteq Nat /\ Ids # {}
       /\ IntBits \in 2..30
       /\ MaxValues \in Nat /\ MaxIntervals \in Nat
       /\ OpenIntervals \in BOOLEAN

VARIABLES intervals, covered, lastAdd
vars == <<intervals, covered, lastAdd>>

\* The largest id of the model stands for "every id from here on" (`*`).
Top == CHOOSE m \in Ids : \A i \in Ids : i <= m

(***************************************************************************)
(* `const int begin = vals[i]`: a qint64 id narrowed to a two's-complement *)
(* int of IntBits bits, then widened back when passed to ImapInterval.     *)
(***************************************************************************)
ToInt(v) ==
    LET m == v % (2 ^ IntBits)
    IN  IF m >= 2 ^ (IntBits - 1) THEN m - 2 ^ IntBits ELSE m

(* ImapInterval::Private: begin and end, 0 meaning "not defined".          *)
Interval(b, e) == [begin |-> b, end |-> e]

SizeMutant(iv) ==
    IF iv.begin = 0 /\ iv.end = 0 THEN 0 ELSE iv.end - iv.begin

\* ImapInterval::size()
Size(iv) ==
    IF iv.begin = 0 /\ iv.end = 0 THEN 0 ELSE iv.end - iv.begin + 1

\* ImapInterval::hasDefinedEnd()
HasDefinedEnd(iv) == iv.end # 0

----------------------------------------------------------------------------
(* Tokens of the rendered text. *)
Num(n) == [tok |-> "num", val |-> n]
Colon  == [tok |-> ":", val |-> 0]
Star   == [tok |-> "*", val |-> 0]
Comma  == [tok |-> ",", val |-> 0]

\* ImapInterval::toImapSequence(): "", "b", "b:e" or "b:*"
ToImapSequence(iv) ==
    IF Size(iv) = 0 THEN <<>>
    ELSE IF Size(iv) = 1 THEN <<Num(iv.begin)>>
    ELSE <<Num(iv.begin), Colon>>
           \o (IF HasDefinedEnd(iv) THEN <<Num(iv.end)>> ELSE <<Star>>)

\* ImapParser::join(list, ","): the first element, then "," and each next.
Join(parts) ==
    IF parts = <<>> THEN <<>>
    ELSE FoldLeft(LAMBDA acc, p : acc \o <<Comma>> \o p,
                  Head(parts), Tail(parts))

\* ImapSet::toImapSequenceSet()
ToImapSequenceSet(ivs) ==
    Join([k \in 1..Len(ivs) |-> ToImapSequence(ivs[k])])

----------------------------------------------------------------------------
(***************************************************************************)
(* The decoder of the wire grammar (spec section 6): the text splits at    *)
(* commas into ranges, each of which must be  id,  id:id  or  id:*.  It    *)
(* yields [ok |-> TRUE, ids |-> the ids the text denotes], or ok FALSE.   *)
(***************************************************************************)
RECURSIVE SplitAtCommas(_)
SplitAtCommas(t) ==
    LET i == SelectInSeq(t, LAMBDA x : x = Comma)
    IN  IF i = 0 THEN <<t>>
        ELSE <<SubSeq(t, 1, i - 1)>> \o SplitAtCommas(SubSeq(t, i + 1, Len(t)))

IsId(x) == x.tok = "num" /\ x.val >= 1

Parsed(S) == [ok |-> TRUE, ids |-> S]
Malformed == [ok |-> FALSE, ids |-> {}]

RangeIds(r) ==
    CASE Len(r) = 1 /\ IsId(r[1])
            -> Parsed({r[1].val})
      [] Len(r) = 3 /\ IsId(r[1]) /\ r[2] = Colon /\ IsId(r[3])
            -> Parsed(r[1].val .. r[3].val)
      [] Len(r) = 3 /\ IsId(r[1]) /\ r[2] = Colon /\ r[3] = Star
            -> Parsed(r[1].val .. Top)
      [] OTHER -> Malformed

Decode(t) ==
    IF t = <<>> THEN Parsed({})
    ELSE LET rs == [k \in 1..Len(SplitAtCommas(t)) |-> RangeIds(SplitAtCommas(t)[k])]
         IN  IF \E k \in DOMAIN rs : ~rs[k].ok THEN Malformed
             ELSE Parsed(UNION {rs[k].ids : k \in DOMAIN rs})

----------------------------------------------------------------------------
(***************************************************************************)
(* The grouping loop of ImapSet::add(QVector<Id>) over the sorted copy.    *)
(* From position 1 the do-while advances while each value is one more     *)
(* than the previous and steps back (--i) at the first that is not; the   *)
(* run ends at RunEnd(vals).                                               *)
(***************************************************************************)
RunEndMutant(vals) ==
    LET Gap == {j \in 2..Len(vals) : vals[j] # vals[j - 1] + 1}
    IN  IF Gap = {} THEN Len(vals)
        ELSE CHOOSE g \in Gap : \A h \in Gap : g <= h

RunEnd(vals) ==
    LET Gap == {j \in 2..Len(vals) : vals[j] # vals[j - 1] + 1}
    IN  IF Gap = {} THEN Len(vals)
        ELSE (CHOOSE g \in Gap : \A h \in Gap : g <= h) - 1

(***************************************************************************)
(* One interval per run.  A value that is last in the vector and alone in  *)
(* its run takes the `if ( i == vals.count() - 1 )` branch, which builds   *)
(* ImapInterval( begin, begin ) from the narrowed int twice; any other run *)
(* ends in ImapInterval( begin, vals[i] ) with the un-narrowed end.        *)
(***************************************************************************)
RECURSIVE Runs(_)
Runs(vals) ==
    IF vals = <<>> THEN <<>>
    ELSE IF Len(vals) = 1
    THEN <<Interval(ToInt(vals[1]), ToInt(vals[1]))>>
    ELSE LET n == RunEnd(vals)
         IN  <<Interval(ToInt(vals[1]), vals[n])>>
               \o Runs(SubSeq(vals, n + 1, Len(vals)))

\* The ids the caller meant by an interval; an undefined end means "to *".
Meant(iv) == IF HasDefinedEnd(iv) THEN iv.begin .. iv.end ELSE iv.begin .. Top

\* Intervals a caller may construct: begin <= end, or an undefined end.
IntervalInputs ==
    {iv \in [begin : Ids, end : Ids] : iv.begin <= iv.end}
      \cup (IF OpenIntervals THEN {Interval(b, 0) : b \in Ids} ELSE {})

----------------------------------------------------------------------------
Init ==
    /\ intervals = <<>>
    /\ covered = {}
    /\ lastAdd = [in |-> <<>>, out |-> <<>>]

\* ImapSet::add(const QVector<Id>&): sort a copy, append one interval per run.
AddValues(vals) ==
    LET out == Runs(SortSeq(vals, LAMBDA a, b : a < b))
    IN  /\ Len(intervals) + Len(out) <= MaxIntervals
        /\ intervals' = intervals \o out
        /\ covered' = covered \cup ToSet(vals)
        /\ lastAdd' = [in |-> vals, out |-> out]

\* ImapSet::add(const ImapInterval&): appended as is, no merging.
AddInterval(iv) ==
    /\ Len(intervals) < MaxIntervals
    /\ intervals' = Append(intervals, iv)
    /\ covered' = covered \cup Meant(iv)
    /\ UNCHANGED lastAdd

\* ImapSet::ImapSet(): a handler parsing its next command starts a new set.
NewSet ==
    /\ intervals # <<>>
    /\ intervals' = <<>>
    /\ covered' = {}
    /\ lastAdd' = [in |-> <<>>, out |-> <<>>]

Next ==
    \/ NewSet
    \/ \E vals \in BoundedSeq(Ids, MaxValues) \ {<<>>} : AddValues(vals)
    \/ \E iv \in IntervalInputs : AddInterval(iv)

Spec == Init /\ [][Next]_vars

----------------------------------------------------------------------------
TypeOK ==
    /\ intervals \in Seq([begin : Int, end : Int])
    /\ Len(intervals) <= MaxIntervals
    /\ covered \subseteq Ids
    /\ lastAdd.in \in Seq(Ids)

\* Reference: the maximal runs of consecutive ids of S, by ascending begin.
MaximalRuns(S) ==
    SetToSortSeq({iv \in [begin : S, end : S] :
                     /\ iv.begin <= iv.end
                     /\ iv.begin .. iv.end \subseteq S
                     /\ iv.begin - 1 \notin S
                     /\ iv.end + 1 \notin S},
                 LAMBDA x, y : x.begin < y.begin)

(***************************************************************************)
(* ImapSet::add(values) of a duplicate-free list appends exactly the       *)
(* maximal runs of consecutive ids, in ascending order (spec 4.1 and the   *)
(* example add([5,1,2,3,9]) = 1:3,5,9 of spec section 8).                  *)
(***************************************************************************)
AddValuesMatchesRuns ==
    IsInjective(lastAdd.in) => lastAdd.out = MaximalRuns(ToSet(lastAdd.in))

(***************************************************************************)
(* Rendering the set with toImapSequenceSet() and reading the text back    *)
(* with the wire grammar denotes exactly the ids the callers added, over   *)
(* any sequence of add(values) and add(interval) calls (spec section 8,    *)
(* the round trip over the covered set).                                   *)
(***************************************************************************)
EncodeRoundTrip ==
    Decode(ToImapSequenceSet(intervals)) = Parsed(covered)

=============================================================================
