------------------------ MODULE TopicFilterReference ------------------------
(***************************************************************************)
(* The matching rule of MQTT 3.1.1 (section 4.7), by levels, as the        *)
(* reference for FilterMatches, by which MqttInbound dispatches.           *)
(***************************************************************************)
EXTENDS MqttInbound, SequencesExt

CONSTANTS Level,     \* levels of topic names, the empty one included
          MaxLevels  \* levels of a filter or a topic, at most

\* A character of a level is not the separator, and a wildcard only stands alone.
LevelChar == STRING \ {"/", "+", "#"}

ASSUME LevelAssumption == Level \subseteq Seq(LevelChar) /\ MaxLevels \in Nat \ {0}

LevelSeqs(S) == UNION {[1 .. n -> S] : n \in 1 .. MaxLevels}

\* A '#' is the last level and stands alone, and so does a '+'.
FilterLevels ==
  {fl \in LevelSeqs(Level \cup {<<"+">>, <<"#">>}) :
     \A i \in 1 .. Len(fl) - 1 : fl[i] # <<"#">>}

Join(levels) == Tail(FlattenSeq([i \in DOMAIN levels |-> <<"/">> \o levels[i]]))

LevelsMatch(fl, tl) ==
  LET open == fl[Len(fl)] = <<"#">>
      fixed == IF open THEN Len(fl) - 1 ELSE Len(fl)
  IN /\ IF open THEN Len(tl) >= fixed ELSE Len(tl) = fixed
     /\ \A i \in 1 .. fixed : fl[i] = <<"+">> \/ fl[i] = tl[i]

MatcherAgrees ==
  \A fl \in FilterLevels, tl \in LevelSeqs(Level) :
    FilterMatches(Join(fl), Join(tl)) = LevelsMatch(fl, tl)

\* When a message is dispatched, iotmer_topic_filter_matches, which moves two pointers,
\* decides as the standard does by levels, for every filter and topic of these levels:
\* "a/#" for the parent level "a", and empty levels, included.
MatcherFollowsStandard == net = "dispatch" => MatcherAgrees
=============================================================================
