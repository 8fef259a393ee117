------------------------------- MODULE MCReadings -------------------------------
(* Feeds of four posts: people who report the same thing, some in one wording, *)
(* one person who does so again and again, and reports far apart in time.      *)
EXTENDS Readings, TLC

CONSTANTS C1, C2, C3, C4

Nobody ==
    [specifics |-> 0, outrage |-> FALSE, motive |-> FALSE, shouting |-> FALSE,
     age |-> "young", karma |-> "some", verified |-> FALSE, fewPosts |-> TRUE, reach |-> 0]

Throwaway == [Nobody EXCEPT !.age = "new", !.karma = "throwaway", !.outrage = TRUE]

Customer == [Nobody EXCEPT !.specifics = 2, !.age = "old"]

Posted(author, wording, at, profile) ==
    [author |-> author, topic |-> "upi", wording |-> wording, at |-> at,
     profile |-> profile, complaint |-> TRUE, severity |-> 3]

Feed(w1, w2, w3, w4) ==
    [c \in Case |-> CASE c = C1 -> w1 [] c = C2 -> w2 [] c = C3 -> w3 [] c = C4 -> w4]

Wave == Feed(Posted("asha", "x", 0, Throwaway), Posted("ravi", "x", 3, Nobody),
             Posted("mina", "x", 5, Customer), Posted("asha", "y", 6, Customer))

Loud == Feed(Posted("asha", "x", 0, Nobody), Posted("asha", "x", 1, Nobody),
             Posted("asha", "y", 2, Nobody), [Posted("ravi", "z", 2, Throwaway) EXCEPT !.topic = "kyc"])

Backlog == Feed(Posted("asha", "x", 0, Customer), Posted("ravi", "y", 10, Customer),
                Posted("mina", "z", 20, Nobody), Posted("asha", "z", 30, Throwaway))

SomeOpinions == {<<"customer", 100>>}

SomeFeeds == {Wave, Loud}

LateFeeds == {Backlog}

Processes == Permutations(Process)
=================================================================================
