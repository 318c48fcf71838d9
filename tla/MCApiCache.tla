----------------------------- MODULE MCApiCache -----------------------------
(* Two tasks, a market with tags of every kind, three closed positions.     *)
EXTENDS ApiCache, TLC

Tag(i, s) == [id |-> i, slug |-> s]

black == Tag("1", "hide")
nba   == Tag("745", "nba")
topic == Tag("2", "crypto")
plain == Tag("3", "misc")

MCBlackTags == {"1"}
MCSportTagIDs == [i \in {"745"} |-> "basketball"]
MCSeriesToSport == [f \in {"mlb", "mlbb"} |-> IF f = "mlb" THEN "baseball" ELSE "esports"]
MCNonSportSlugs == {"crypto"}

\* A topic, which a fragment of the slug beats.
TopicTagged == {<<plain, topic>>}
BlackTagged == {<<topic, nba>>, <<topic, black>>}

NoFragment == {}
OneFragment == {"mlb"}

Alike == Permutations(Tasks)
=============================================================================
