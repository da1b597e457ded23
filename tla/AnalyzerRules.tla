--------------------------- MODULE AnalyzerRules ---------------------------
(***************************************************************************)
(* What the Analyzer accepts of an answer of the model, and how an         *)
(* accepted answer becomes rows: validateAnalyzeTurnOutput and             *)
(* mapAnalyzeTurnOutputToEntities.  No state: Argumentation uses it.       *)
(*                                                                         *)
(* An input has the two current turns, those of them whose content is      *)
(* EMPTY_DEBATE_TURN_CONTENT, and the components of the earlier rounds.    *)
(* An answer has a sequence of components and one of relations; a relation *)
(* has a kind, a type and two references.                                  *)
(***************************************************************************)
EXTENDS Integers, Sequences, FiniteSets, SequencesExt, Places, Texts

CONSTANTS
  DefaultLimits,   \* DEFAULT_ANALYZE_TURN_VALIDATION_LIMITS
  Limits           \* the limits of the configuration

LimitRecords == [components : Nat, targets : Nat, statement : Nat]

ASSUME LimitsAssumption == DefaultLimits \in LimitRecords /\ Limits \in LimitRecords

-----------------------------------------------------------------------------
Sides == {"SIDE_A", "SIDE_B"}

\* Rounds are counted over the whole debate: round 1 is the opening.
Turn(r, side) == [round |-> r, side |-> side]
Opening == 1

New(key) == [source |-> "NEW", key |-> key]
Existing(id) == [source |-> "EXISTING", key |-> id]

Types == [ARGUMENTAL |-> {"SUPPORTS", "ATTACKS"},
          INTERACTIONAL |-> {"QUESTIONS", "ANSWERS"}]

Relation(kind, type, from, to) ==
  [kind |-> kind, type |-> type, from |-> from, to |-> to]

Component(key, turn, statement, major, check) ==
  [key |-> key, turn |-> turn, statement |-> statement, major |-> major, check |-> check]

\* What validateOutputShape and the response schema make of an answer.
Answers ==
  LET turns == [round : Nat, side : Sides]
      refs == [source : {"NEW", "EXISTING"}, key : Int]
  IN [components : Seq([key : Int, turn : turns, statement : Texts,
                        major : BOOLEAN, check : BOOLEAN]),
      relations : Seq([kind : DOMAIN Types, type : UNION {Types[k] : k \in DOMAIN Types},
                       from : refs, to : refs])]

\* The components of an answer that belong to turn t, that are major claims,
\* and that require a fact check: their places in the answer.
OfTurn(out, t) == {i \in DOMAIN out.components : out.components[i].turn = t}
MajorOnes(out) == {i \in DOMAIN out.components : out.components[i].major}
CheckedOnes(out) == {i \in DOMAIN out.components : out.components[i].check}

Keys(out) == [i \in DOMAIN out.components |-> out.components[i].key]

Distinct(s) == Cardinality(ToSet(s)) = Len(s)

-----------------------------------------------------------------------------
(* The checks of analyze-turn-output.validator.ts, in their order.          *)

ComponentTurnIds(in, out) ==
  \A c \in ToSet(out.components) : c.turn \in in.turns

EmptyTurns(in, out) ==
  \A c \in ToSet(out.components) : c.turn \notin in.empty

\* Mutant: the targets of a turn are not counted.
M_OutputSize(out, limits) ==
  \A t \in {c.turn : c \in ToSet(out.components)} :
    Cardinality(OfTurn(out, t)) <= limits.components

OutputSize(out, limits) ==
  \A t \in {c.turn : c \in ToSet(out.components)} :
    /\ Cardinality(OfTurn(out, t)) <= limits.components
    /\ Cardinality(OfTurn(out, t) \cap CheckedOnes(out)) <= limits.targets

\* The pattern NEW_[1-9]..., and no key twice.
LocalKeys(out) ==
  /\ \A c \in ToSet(out.components) : c.key > 0
  /\ Distinct(Keys(out))

References(in, out) ==
  \A rel \in ToSet(out.relations) : \A ref \in {rel.from, rel.to} :
    IF ref.source = "NEW" THEN ref.key \in ToSet(Keys(out))
                          ELSE ref.key \in {c.id : c \in in.existing}

\* Mutant: a relation may start anywhere.
M_RelationSources(out) == TRUE

RelationSources(out) ==
  \A rel \in ToSet(out.relations) : rel.from.source = "NEW"

SelfReferences(out) == \A rel \in ToSet(out.relations) : rel.from # rel.to

DuplicateRelations(out) == Distinct(out.relations)

\* Mutant: only neighbours are compared.
M_Conflicting(out, kind) ==
  \A i \in 1..(Len(out.relations) - 1) :
    LET p == out.relations[i]
        q == out.relations[i + 1]
    IN p.kind = kind /\ q.kind = kind /\ p.from = q.from /\ p.to = q.to
         => p.type = q.type

\* Two relations of one kind between the same ends have the same type.
ConflictFree(out, kind) ==
  \A p, q \in ToSet(out.relations) :
    p.kind = kind /\ q.kind = kind /\ p.from = q.from /\ p.to = q.to
      => p.type = q.type

Statements(out, limits) ==
  \A c \in ToSet(out.components) :
    ~Blank(c.statement) /\ c.statement.len <= limits.statement

MajorOf(in, side) ==
  Cardinality({c \in in.existing : c.turn.side = side /\ c.major})

MajorClaims(in, out) ==
  \A t \in in.turns :
    LET claims == Cardinality(OfTurn(out, t) \cap MajorOnes(out))
    IN /\ claims > 0 => t.round = Opening
       /\ MajorOf(in, t.side) + claims <= 1

ValidOutput(in, out, limits) ==
  /\ ComponentTurnIds(in, out)
  /\ EmptyTurns(in, out)
  /\ OutputSize(out, limits)
  /\ LocalKeys(out)
  /\ References(in, out)
  /\ RelationSources(out)
  /\ SelfReferences(out)
  /\ DuplicateRelations(out)
  /\ ConflictFree(out, "ARGUMENTAL")
  /\ ConflictFree(out, "INTERACTIONAL")
  /\ Statements(out, limits)
  /\ MajorClaims(in, out)

\* AnalyzerAiService validates with the default limits, AnalyzeTurnService
\* with those of the configuration.
AcceptedOutput(in, out) ==
  ValidOutput(in, out, DefaultLimits) /\ ValidOutput(in, out, Limits)

-----------------------------------------------------------------------------
(* mapAnalyzeTurnOutputToEntities.  "uuid" gives the ids of the new rows:   *)
(* first those of the components, then those of the relations.  "now" is    *)
(* their createdAt, the start of the transaction.                           *)

\* The mapper finds an id for every key it is asked for.
Mappable(out) ==
  \A rel \in ToSet(out.relations) :
    /\ rel.from.key \in ToSet(Keys(out)) /\ rel.from.source = "NEW"
    /\ rel.to.source = "NEW" => rel.to.key \in ToSet(Keys(out))

\* localKeyToComponentId: the id of the component with this key.
IdOfKey(out, uuid, key) == uuid[CHOOSE i \in DOMAIN Keys(out) : Keys(out)[i] = key]

Resolve(out, uuid, ref) ==
  IF ref.source = "EXISTING" THEN ref.key ELSE IdOfKey(out, uuid, ref.key)

ComponentRows(out, uuid, now) ==
  {[id |-> IdOfKey(out, uuid, c.key), turn |-> c.turn, statement |-> Trim(c.statement),
    major |-> c.major, check |-> c.check, created |-> now] : c \in ToSet(out.components)}

RelationRows(out, uuid, now) ==
  {[id |-> uuid[Len(out.components) + i], created |-> now,
    kind |-> out.relations[i].kind, type |-> out.relations[i].type,
    from |-> Resolve(out, uuid, out.relations[i].from),
    to |-> Resolve(out, uuid, out.relations[i].to)] : i \in DOMAIN out.relations}

\* The ids of the components that require a fact check, in the answer's order.
FactCheckTargets(out, uuid) ==
  LET checked == InTurn(CheckedOnes(out))
  IN [k \in DOMAIN checked |-> IdOfKey(out, uuid, out.components[checked[k]].key)]
=============================================================================
