--------------------------------- MODULE Records ---------------------------------
(***************************************************************************)
(* What becomes of one page: the fields that the processor extracts by the *)
(* mission's rules (processor/worker.py), the confidence the validator     *)
(* computes of them, and its verdict (validator/worker.py).  Both are      *)
(* loops without awaits; an iteration is an action, so that invariants can *)
(* speak of every prefix of the work.                                      *)
(*                                                                         *)
(* "json_path" stands for that type and for an unknown one: the best       *)
(* effort of an unknown type never reaches its CSS fallback, since         *)
(* _extract_json_path returns {} for a page that is not JSON instead of    *)
(* raising.  "match" stands for CSS selectors and regular expressions,     *)
(* whose rules find a text or nothing.                                     *)
(***************************************************************************)
EXTENDS Integers, FiniteSets, SequencesExt

CONSTANTS
    Values,     \* JSON values, with the entries and items of each
    Pages,      \* pages: [json |-> a value or NotJson, len |-> characters, stripped]
    RuleSets,   \* sequences of paths, one for each field
    Keys,       \* the strings without dots and brackets
    Rest,       \* Rest[key]: a key that is not empty without its first character
    Lengths,    \* lengths of the texts a selector or an expression finds
    MaxMatches  \* most fields of a "match" extraction

VARIABLES
    page, type, rules,  \* the page and the extract section of the mission
    pc,                 \* which loop is running
    rest,               \* parts of the path that are not resolved yet
    current,            \* the local of _resolve_json_path
    fields,             \* extracted_fields, in the order of the rules
    total,              \* how many fields the validator has looked at
    filled, quality,    \* its counters, quality_sum in hundredths
    verdict             \* "none", "accepted" or "dead"

weights == <<total, filled, quality>>
input == <<page, type, rules>>
vars == <<input, pc, rest, current, fields, weights, verdict>>

-----------------------------------------------------------------------------
(* JSON values, with strings reduced to their length.                      *)

Null == [kind |-> "null"]
Number == [kind |-> "number"]
Str(n) == [kind |-> "string", len |-> n]
List(s) == [kind |-> "list", items |-> s]
Dict(f) == [kind |-> "dict", at |-> f]
NotJson == [kind |-> "text"]

\* What dict.get, or indexing a dict or list with the exception caught, finds.
Entry(v, key) == IF v.kind = "dict" /\ key \in DOMAIN v.at THEN v.at[key] ELSE Null

\* A faulty variant: the last item of a list is out of range.
ItemButLast(v, n) ==
    IF v.kind = "list" /\ n + 1 \in 1 .. Len(v.items) - 1 THEN v.items[n + 1] ELSE Null

\* A negative index counts from the end.
Item(v, n) ==
    IF v.kind # "list" THEN Null
    ELSE LET i == IF n < 0 THEN Len(v.items) + n + 1 ELSE n + 1
         IN  IF i \in DOMAIN v.items THEN v.items[i] ELSE Null

(***************************************************************************)
(* A path is "$", an optional ".", and parts between dots.  A part is a    *)
(* key and the subscripts behind it; the key may be empty.  Without that   *)
(* ".", something of the first part follows "$" at once, if there is one.  *)
(***************************************************************************)
All == [all |-> TRUE]
Nth(n) == [at |-> n]

Part == [key : Keys, subs : Seq({All} \cup [at : Int])]
Path ==
    {path \in [dollar : BOOLEAN, dot : BOOLEAN, parts : Seq(Part)] :
        path.dot \/ path.parts = <<>> \/ path.parts[1] # [key |-> "", subs |-> <<>>]}

\* A key with a bracket in it, which no page has.
Garbled == "]"

\* A faulty variant: path[1:] keeps what stands behind "$".
PartsBehindDollar(path) == path.parts

\* A part without its first character: of its key, or the bracket of its first
\* subscript, the rest of which is then the key.
Beheaded(part) ==
    IF part.key = "" THEN [key |-> Garbled, subs |-> Tail(part.subs)]
    ELSE [part EXCEPT !.key = Rest[part.key]]

\* path[2:].split("."): the first character after "$" goes, dot or not.
PartsOf(path) ==
    IF path.dot \/ path.parts = <<>> THEN path.parts
    ELSE [path.parts EXCEPT ![1] = Beheaded(path.parts[1])]

IsValue(v) ==
    \/ v \in {Null, Number}
    \/ v.kind = "string" /\ v.len \in Nat /\ v = Str(v.len)
    \/ v.kind = "list" /\ v.items \in Seq(Values) /\ v = List(v.items)
    \/ /\ v.kind = "dict" /\ v = Dict(v.at)
       /\ Garbled \notin DOMAIN v.at /\ \A key \in DOMAIN v.at : v.at[key] \in Values

\* What a field may hold: also a value wrapped by "[*]", and a text.
Field == Values \cup {List(<<v>>) : v \in Values} \cup [kind : {"string"}, len : Nat]

ASSUME RecordsAssumption ==
    /\ Null \in Values
    /\ \A v \in Values : IsValue(v)
    /\ \A p \in Pages : p.json \in Values \cup {NotJson} /\ p.len \in Nat
    /\ RuleSets \subseteq Seq(Path)
    /\ Lengths \subseteq Nat
    /\ MaxMatches \in Nat

ASSUME KeysAssumption ==
    /\ Garbled \notin Keys
    /\ Rest \in [Keys \ {""} -> Keys]

\* Selectors and expressions are not told apart: each may find anything.
Selector == "selector"

-----------------------------------------------------------------------------
(* _extract_fields: a loop over the rules around _resolve_json_path.       *)

Init ==
    /\ page \in Pages
    /\ \/ type = "json_path" /\ rules \in RuleSets
       \/ type = "match" /\ \E n \in 1 .. MaxMatches : rules = [i \in 1 .. n |-> Selector]
    /\ pc = "extract"
    /\ rest = <<>>
    /\ current = Null
    /\ fields = <<>>
    /\ total = 0 /\ filled = 0 /\ quality = 0
    /\ verdict = "none"

\* No rules, or nothing to apply them to.
ExtractNothing ==
    /\ pc = "extract"
    /\ \/ rules = <<>> /\ fields' = <<Str(page.len)>>
       \/ rules # <<>> /\ type = "json_path" /\ page.json = NotJson /\ UNCHANGED fields
    /\ pc' = "weigh"
    /\ UNCHANGED <<input, rest, current, weights, verdict>>

\* The path of the next field.
NextRule ==
    /\ pc = "extract"
    /\ type = "json_path"
    /\ page.json # NotJson
    /\ Len(fields) < Len(rules)
    /\ LET path == rules[Len(fields) + 1]
       IN  IF path.dollar
           THEN current' = page.json /\ rest' = PartsOf(path)
           ELSE current' = Null /\ rest' = <<>>
    /\ pc' = "resolve"
    /\ UNCHANGED <<input, fields, weights, verdict>>

\* The value that subscripts stand behind.
Base(part) == IF part.key = "" THEN current ELSE Entry(current, part.key)

\* Ends the loop with a result, or goes on to the next part.
Return(v) == current' = v /\ rest' = <<>>
GoOn(v) == current' = v /\ rest' = Tail(rest)

Key(part) == part.subs = <<>> /\ GoOn(Base(part))

Wildcard(part) ==
    /\ part.subs = <<All>>
    /\ Return(IF Base(part).kind \in {"list", "null"} THEN Base(part)
              ELSE List(<<Base(part)>>))

Index(part) ==
    /\ Len(part.subs) = 1 /\ part.subs[1] # All
    /\ GoOn(Item(Base(part), part.subs[1].at))

\* "0][1" is no integer: the exception makes the field null.
Subscripts(part) == Len(part.subs) > 1 /\ Return(Null)

ResolvePart ==
    /\ pc = "resolve"
    /\ rest # <<>>
    /\ LET part == Head(rest)
       IN  Key(part) \/ Wildcard(part) \/ Index(part) \/ Subscripts(part)
    /\ UNCHANGED <<input, pc, fields, weights, verdict>>

AddField(v) ==
    /\ fields' = Append(fields, v)
    /\ pc' = IF Len(fields) + 1 = Len(rules) THEN "weigh" ELSE "extract"

FieldDone ==
    /\ pc = "resolve"
    /\ rest = <<>>
    /\ AddField(current)
    /\ UNCHANGED <<input, rest, current, weights, verdict>>

\* A selector or an expression finds nothing, or a text, stripped to n characters.
MatchRule ==
    /\ pc = "extract"
    /\ type = "match"
    /\ Len(fields) < Len(rules)
    /\ AddField(Null) \/ \E n \in Lengths : AddField(Str(n))
    /\ UNCHANGED <<input, rest, current, weights, verdict>>

-----------------------------------------------------------------------------
(* _compute_confidence and _validate.                                      *)

\* Faulty variant: blank strings count.
IsFilledIfNotNull(v) == v # Null

IsFilled(v) ==
    \/ v.kind = "number"
    \/ v.kind = "string" /\ v.len > 0
    \/ v.kind = "list" /\ v.items # <<>>
    \/ v.kind = "dict" /\ DOMAIN v.at # {}

Quality(v) == IF v.kind = "string" /\ v.len < 100 THEN v.len ELSE 100

WeighField ==
    /\ pc = "weigh"
    /\ total < Len(fields)
    /\ LET v == fields[total + 1]
       IN  /\ filled' = IF IsFilled(v) THEN filled + 1 ELSE filled
           /\ quality' = IF IsFilled(v) THEN quality + Quality(v) ELSE quality
    /\ total' = total + 1
    /\ UNCHANGED <<input, pc, rest, current, fields, verdict>>

\* fill_ratio * 0.6 + avg_quality * 0.4, as a fraction; a hundredth has weight 4.
Numerator(t, f, q) == 600 * f * f + 4 * q * t

\* A faulty variant: the weights the other way round.
ScoreByQuality(t, f, q) ==
    IF f = 0 THEN 0
    ELSE (20 * (400 * f * f + 6 * q * t) + t * f) \div (2 * t * f)

\* round(..., 4), in ten-thousandths.
Score(t, f, q) ==
    IF f = 0 THEN 0
    ELSE (20 * Numerator(t, f, q) + t * f) \div (2 * t * f)

\* MIN_CONFIDENCE_THRESHOLD.
Threshold == 1000

\* _validate asks for a field that is not null; a page without one scores 0.
IsValid == \E i \in DOMAIN fields : fields[i] # Null

Judge ==
    /\ pc = "weigh"
    /\ total = Len(fields)
    /\ verdict' = IF IsValid /\ Score(total, filled, quality) >= Threshold
                  THEN "accepted" ELSE "dead"
    /\ pc' = "done"
    /\ UNCHANGED <<input, rest, current, fields, weights>>

Next ==
    \/ ExtractNothing \/ NextRule \/ ResolvePart \/ FieldDone \/ MatchRule
    \/ WeighField \/ Judge

Spec == Init /\ [][Next]_vars

-----------------------------------------------------------------------------
(* What a path means by the definition of JSONPath: the nodes it selects.  *)
(* A value that is no list counts as a list of one.                        *)

Children(v) ==
    CASE v.kind = "list" -> v.items
      [] v.kind = "null" -> <<>>
      [] OTHER -> <<v>>

Entries(v, key) ==
    IF v.kind = "dict" /\ key \in DOMAIN v.at THEN <<v.at[key]>> ELSE <<>>

Items(v, n) ==
    IF v.kind # "list" THEN <<>>
    ELSE LET items == IF n < 0 THEN Reverse(v.items) ELSE v.items
             k == IF n < 0 THEN -n ELSE n + 1
         IN  SubSeq(items, k, Min({k, Len(items)}))

SelectKey(nodes, key) == FlattenSeq([i \in DOMAIN nodes |-> Entries(nodes[i], key)])

SelectSub(nodes, sub) ==
    FlattenSeq([i \in DOMAIN nodes |->
        IF sub = All THEN Children(nodes[i]) ELSE Items(nodes[i], sub.at)])

SelectPart(nodes, part) == FoldLeft(SelectSub, SelectKey(nodes, part.key), part.subs)

\* The nodes selected by the first n parts, for each n.
Selected(path, v) ==
    LET nodes[n \in 0 .. Len(path.parts)] ==
            IF n = 0 THEN <<v>> ELSE SelectPart(nodes[n - 1], path.parts[n])
    IN  nodes

\* A path that names one node; a path that ends in a wildcard after its last key.
IsDefinite(path) ==
    \A i \in DOMAIN path.parts :
        LET part == path.parts[i]
        IN  part.key # "" /\ Len(part.subs) <= 1 /\ part.subs # <<All>>

IsListing(path) ==
    /\ path.parts # <<>>
    /\ Last(path.parts).key # "" /\ Last(path.parts).subs = <<All>>
    /\ IsDefinite([path EXCEPT !.parts = Front(path.parts)])

\* What the field of a path should hold.
Holds(v, path) ==
    LET nodes == Selected(path, page.json)[Len(path.parts)]
    IN  IF IsDefinite(path) THEN v = (IF nodes = <<>> THEN Null ELSE nodes[1])
        ELSE v = List(nodes) \/ (v = Null /\ nodes = <<>>)

\* The paths that the docstring of _extract_json_path promises.
IsDocumented(path) == path.dollar /\ path.dot /\ (IsDefinite(path) \/ IsListing(path))

-----------------------------------------------------------------------------
(* Types.  The counters of the validator stay within what it has looked at. *)
TypeOK ==
    /\ page \in Pages
    /\ type \in {"json_path", "match"}
    /\ pc \in {"extract", "resolve", "weigh", "done"}
    /\ current \in Field
    /\ fields \in Seq(Field)
    /\ Len(fields) <= Len(rules) \/ (rules = <<>> /\ Len(fields) = 1)
    /\ total \in 0 .. Len(fields)
    /\ filled \in 0 .. total
    /\ quality \in filled .. 100 * filled
    /\ verdict \in {"none", "accepted", "dead"}

(***************************************************************************)
(* The paths that the docstring of _extract_json_path promises, keys with  *)
(* one subscript at most, a wildcard at the end, resolve to what JSONPath  *)
(* says they select, at any depth; a path that selects nothing gives null. *)
(***************************************************************************)
DocumentedPathsResolve ==
    type = "json_path" =>
        \A i \in DOMAIN fields \cap DOMAIN rules :
            IsDocumented(rules[i]) => Holds(fields[i], rules[i])

\* A path that subscripts "$" itself, or does not begin with it.
Lost(path) ==
    \/ ~path.dollar
    \/ ~path.dot /\ path.parts # <<>> /\ path.parts[1].key = ""

(***************************************************************************)
(* A page that is a JSON list, as README.md's "$[*]" expects it, is        *)
(* accepted only by a rule that does not subscript "$" itself: path[2:]    *)
(* cuts the bracket away and the field is null, so that a mission with     *)
(* only such rules has all its pages dead-lettered.                        *)
(***************************************************************************)
RootSubscriptsAreLost ==
    verdict = "accepted" /\ type = "json_path" /\ rules # <<>> =>
        \E i \in DOMAIN rules : ~Lost(rules[i])

HasContent(v) ==
    v \notin {Null, Str(0), List(<<>>)} /\ (v.kind = "dict" => DOMAIN v.at # {})

\* The fields that hold something, among the first n and among all.
ContentsUpTo(n) == {i \in 1 .. n : HasContent(fields[i])}
Contents == ContentsUpTo(Len(fields))

(***************************************************************************)
(* A record is dead-lettered only when fewer than a sixth of its fields    *)
(* hold something, however short, and never accepted when none does,       *)
(* although _validate calls a record of blank strings "ok".                *)
(***************************************************************************)
ASixthIsAccepted ==
    /\ verdict = "dead" => fields = <<>> \/ 6 * Cardinality(Contents) < Len(fields)
    /\ verdict = "accepted" => Contents # {}

(***************************************************************************)
(* "More non-null fields = higher confidence" holds up to three fields;    *)
(* in a wider record, a field that holds something instead of null may     *)
(* lower the confidence by less than 0.198 - 0.6 / fields, and no more     *)
(* (scores are in ten-thousandths, rounding may add one).                  *)
(***************************************************************************)
OneMoreFieldCostsLittle ==
    pc = "done" =>
        \A i \in Contents :
            LET without == Score(total, filled - 1, quality - Quality(fields[i]))
                drop == without - Score(total, filled, quality)
            IN  total * (drop - 1) <= 1980 * total - 6000

-----------------------------------------------------------------------------
(* The invariant that the proofs of RecordsProofs use.                     *)

\* What the two loops have made so far.
LoopInv ==
    /\ Len(rules) \in Nat
    /\ type = "json_path" => rules \in Seq(Path)
    /\ page.json \in Values \cup {NotJson}
    /\ page.json = NotJson => pc # "resolve"
    /\ pc = "resolve" => Len(fields) < Len(rules)
    /\ pc = "resolve" => type = "json_path"
    /\ pc = "extract" => Len(fields) <= Len(rules)
    /\ pc \in {"extract", "resolve"} => total = 0
    /\ verdict = "none" <=> pc # "done"
    /\ pc = "done" => total = Len(fields)
    /\ rest # <<>> => current \in Values

\* The counter counts what HasContent says.
CountInv == filled = Cardinality(ContentsUpTo(total))

\* What the other fields are worth.
OneOutInv ==
    \A i \in ContentsUpTo(total) :
        quality - Quality(fields[i]) \in filled - 1 .. 100 * (filled - 1)

\* A lost path finds nothing.
LostInv ==
    type = "json_path" /\ rules # <<>> =>
        /\ Len(fields) <= Len(rules)
        /\ \A i \in DOMAIN fields : Lost(rules[i]) => fields[i] = Null
        /\ pc = "resolve" /\ Lost(rules[Len(fields) + 1])
               => current = Null \/ (rest # <<>> /\ Head(rest).key = Garbled)

\* Where the two loops are half-way, and the verdict they lead to.
RecordInv == TypeOK /\ LoopInv /\ CountInv /\ OneOutInv /\ LostInv /\ ASixthIsAccepted

\* The resolver's v stands for these nodes.
Found(v, nodes) == nodes = <<v>> \/ (nodes = <<>> /\ v = Null)

\* Half-way through a documented path, current is the node that the parts resolved so
\* far select, or they select none; when the loop ends, current is what the field should hold.
ResolveInv ==
    pc = "resolve" /\ IsDocumented(rules[Len(fields) + 1]) =>
        LET path == rules[Len(fields) + 1]
            n == Len(path.parts) - Len(rest)
            nodes == Selected(path, page.json)[n]
        IN  /\ rest = <<>> => Holds(current, path)
            /\ rest # <<>> =>
                   /\ n \in Nat /\ rest = SubSeq(path.parts, n + 1, Len(path.parts))
                   /\ Found(current, nodes)

\* The inductive invariant.
IndInv == RecordInv /\ ResolveInv /\ DocumentedPathsResolve

=============================================================================
