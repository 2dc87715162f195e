------------------------------ MODULE MCQueries ------------------------------
EXTENDS Queries
CONSTANTS ann, bob, cy, w1, w2, nobody

\* fr and uk are two values of one field of bits, vip is another bit, old is
\* a group without a mask.
MCGroup == "fr" :> [id |-> {1}, mask |-> {1, 2}] @@ "uk" :> [id |-> {2}, mask |-> {1, 2}]
             @@ "vip" :> [id |-> {3}, mask |-> {3}] @@ "old" :> [id |-> {1, 3}, mask |-> {}]
MCMatches == "^a" :> {ann} @@ "y$" :> {bob, cy}

MCGroups == {{}, {1}, {2}, {1, 3}}
MCScores == {-1, 1, 2}
MCWalk   == <<ann, bob, cy>>
MCStarts == {[score |-> (ann :> a @@ bob :> 1 @@ cy :> 2),
              group |-> (ann :> {1} @@ bob :> {2} @@ cy :> {1, 3})] : a \in {2}}
MCSlices == {[from |-> 1, limit |-> 1]}

Words   == {"(", ")", "[", "]", "!", "and", "or", "true", "vip", "^a", "junk"}
MCTexts == UNION {[1 .. n -> Words] : n \in 1 .. 3}
             \cup {<<"(">> \o t : t \in [1 .. 4 -> {"(", ")", "!", "and", "true"}]}
             \cup {<<"(", "^a">> \o t : t \in [1 .. 4 -> {")", "!", "or", "true"}]}
             \cup {<<"!", "(", "[">> \o t : t \in [1 .. 2 -> {"vip", ")", "]"}]}
MCRankTexts == {<<"!", "[", "]">>, <<"true", "and">>}
=============================================================================
