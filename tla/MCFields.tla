------------------------------- MODULE MCFields -------------------------------
EXTENDS Fields
CONSTANTS u1, u2
MCValues    == 1 :> 4 @@ 2 :> 16 @@ 4 :> 256 @@ 8 :> 65536
MCWindow    == "hours" :> 2 @@ "days" :> 2 @@ "months" :> 2
MCLogWindow == "ulog" :> 2 @@ "log" :> 6
One(type)   == <<[name |-> "f", type |-> type]>>
MCConfigs   == {One(t) : t \in Types \ {"log"}} \cup {<<>>}
MCMaxCommands == [t \in Types |-> CASE t \in Logs -> 4 [] t = "marks" -> 3 [] OTHER -> 2]
MCAmounts   == {3, -2}
MCTotals    == {200}
LogConfigs  == {One("log")}
Symmetry    == Permutations(Users)
=============================================================================
