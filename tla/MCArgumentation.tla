-------------------------- MODULE MCArgumentation --------------------------
EXTENDS Argumentation

MCDefaultLimits == [components |-> 2, targets |-> 1, statement |-> 4]
MCLimits == [components |-> 3, targets |-> 2, statement |-> 3]

\* Ids of later rounds sort before those of earlier ones.
MCUuid == <<<<38, 32, 36, 30, 34, 31>>, <<25, 27, 21, 23, 29, 22>>, <<14, 11, 18, 16, 12, 13>>>>

MCSilentCases == {{}, {Turn(2, "SIDE_B")}}

Good == Text(2, 2)
Padded == Text(3, 2)
Long == Text(4, 4)
Empty == Text(2, 0)

ComponentLists(r) ==
  LET A == Turn(r, "SIDE_A")
      B == Turn(r, "SIDE_B")
      C(key, turn, statement) == Component(key, turn, statement, FALSE, FALSE)
      Checked(key, turn) == Component(key, turn, Good, FALSE, TRUE)
      Major(key, turn) == Component(key, turn, Good, TRUE, TRUE)
  IN {<<>>,
      <<Major(1, A), Major(2, B)>>,
      <<Component(1, A, Padded, FALSE, TRUE), C(2, B, Good)>>,
      <<C(2, A, Good), C(1, A, Padded)>>,
      <<Checked(1, A), Checked(2, A), Checked(3, B)>>,
      <<Major(1, A), Major(2, A)>>,
      <<C(1, A, Good), C(1, B, Good)>>,
      <<C(1, A, Empty), C(2, A, Good)>>,
      <<C(1, A, Long), C(2, A, Good)>>,
      <<C(0, A, Good)>>,
      <<C(1, A, Good), C(2, Turn(r + 1, "SIDE_A"), Good)>>}

RelationLists(r) ==
  LET e == Existing(MCUuid[1][1])
      Arg(type, from, to) == Relation("ARGUMENTAL", type, from, to)
      Inter(type, from, to) == Relation("INTERACTIONAL", type, from, to)
  IN {<<>>,
      <<Arg("SUPPORTS", New(1), New(2)), Inter("QUESTIONS", New(2), New(1))>>,
      <<Arg("SUPPORTS", New(1), New(2)), Inter("QUESTIONS", New(2), New(1)),
        Arg("ATTACKS", New(1), New(2))>>,
      <<Inter("QUESTIONS", New(1), New(2)), Inter("ANSWERS", New(1), New(2))>>,
      <<Arg("ATTACKS", New(1), e), Inter("ANSWERS", New(1), e)>>,
      <<Arg("ATTACKS", e, New(1))>>,
      <<Arg("ATTACKS", New(1), New(1))>>,
      <<Arg("ATTACKS", New(2), New(1)), Arg("ATTACKS", New(2), New(1))>>,
      <<Inter("ANSWERS", New(1), Existing(99))>>}

MCAnalyzerAnswers ==
  [r \in 1..LastRound |->
     {[components |-> cs, relations |-> rels] : cs \in ComponentLists(r), rels \in RelationLists(r)}]

MCGroundingAnswers ==
  {<<"u1", "u1", "ftp", "u2", "u3">>, <<"u2", "u1">>, <<"ftp">>}

MCSynthesisAnswers ==
  LET R(place, sources) ==
        [place |-> place, status |-> "SUPPORTED", reason |-> Padded, sources |-> sources]
  IN {<<R(1, <<0>>)>>,
      <<R(1, <<1, 1, 0>>), R(2, <<>>)>>,
      <<R(1, <<2>>)>>,
      <<R(1, <<>>), R(1, <<0>>)>>,
      <<R(1, <<>>), R(0, <<0>>)>>,
      <<[R(1, <<>>) EXCEPT !.reason = Empty]>>}

MCSpeakers == [SIDE_A |-> [id |-> "alice", name |-> Good], SIDE_B |-> [id |-> "bob", name |-> Padded]]

Score(a, i, f) == [argumentation |-> a, interaction |-> i, factualReliability |-> f]

MCJudgeAnswers ==
  {[scores |-> [SIDE_A |-> a, SIDE_B |-> b], reason |-> Good,
    feedback |-> [SIDE_A |-> Good, SIDE_B |-> t]] :
     a, b \in {Score(40, 30, 30), Score(40, 0, 5), Score(15, 15, 15), Score(41, 0, 0)},
     t \in {Good, Empty}}
=============================================================================
