---------------------------- MODULE TopicFilter ----------------------------
(***************************************************************************)
(* The matcher of subscription filters (iotmer_topics.c) as a function of  *)
(* two strings. A string is a sequence of characters; the two pointers of  *)
(* the C loop are the positions i (filter) and j (topic). Every turn of    *)
(* the loop moves the first one on by one, so matches is a function of i,  *)
(* whose values are functions of j.                                        *)
(***************************************************************************)
EXTENDS Integers, Sequences

\* Where a single-level wildcard ends: the next '/' or the end of the topic.
LevelEnd(topic, j) ==
  CHOOSE k \in j .. Len(topic) + 1 :
    /\ k > Len(topic) \/ topic[k] = "/"
    /\ \A l \in j .. k - 1 : topic[l] # "/"

\* Mutant: no rule for the parent level.
FilterMatchesBelow(filter, topic) ==
  LET matches[i \in 1 .. Len(filter) + 1] ==
        [j \in 1 .. Len(topic) + 1 |->
           IF i > Len(filter) THEN j > Len(topic)
           ELSE IF filter[i] = "#" THEN TRUE
           ELSE IF filter[i] = "+" THEN matches[i + 1][LevelEnd(topic, j)]
           ELSE j <= Len(topic) /\ filter[i] = topic[j] /\ matches[i + 1][j + 1]]
  IN matches[1][1]

\* iotmer_topic_filter_matches: the state of its loop is <<i, j>>.
FilterMatches(filter, topic) ==
  LET matches[i \in 1 .. Len(filter) + 1] ==
        [j \in 1 .. Len(topic) + 1 |->
           IF i > Len(filter) THEN j > Len(topic)
           ELSE IF filter[i] = "#" THEN TRUE
           ELSE IF filter[i] = "+" THEN matches[i + 1][LevelEnd(topic, j)]
           ELSE IF j > Len(topic) THEN filter[i] = "/" /\ i < Len(filter) /\ filter[i + 1] = "#"
           ELSE filter[i] = topic[j] /\ matches[i + 1][j + 1]]
  IN matches[1][1]
=============================================================================
