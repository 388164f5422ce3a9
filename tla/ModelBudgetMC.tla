--------------------------- MODULE ModelBudgetMC ---------------------------
(***************************************************************************)
(* Small institutions for ModelBudget: two accounts (two students of one   *)
(* class), a budget over the organization and one over the first student.  *)
(* A token bound of 2 and a price unit of 2 tokens make the rounding of    *)
(* both costs visible; the limits admit one or two requests.               *)
(***************************************************************************)
EXTENDS ModelBudget, TLC

CONSTANTS org, student, profile

MCBudgets == {org, student}
MCCovers == org :> Accounts @@ student :> {1}
MCOneBudget == {org}
MCOneCovers == org :> Accounts
MCProfiles == {profile}
MCProfileOf == [a \in Accounts |-> profile]

dear == [input |-> 1, output |-> 3, cacheRead |-> 2, cacheWrite |-> 0]
free == [input |-> 0, output |-> 0, cacheRead |-> 0, cacheWrite |-> 0]

MCPrices == {dear}
MCPricesWithFree == {dear, free}

Set(tokens, cost, reserve) ==
  [limit |-> [m \in Meters |-> IF m = "tokens" THEN tokens ELSE cost], reserve |-> reserve]

Report(input, output, cacheRead) ==
  [input |-> input, output |-> output, cacheRead |-> cacheRead, cacheWrite |-> 0]

(* Small and full honest usage, and usage above what one output token allows. *)
MCUsages == {Report(1, 1, 0), Report(0, 1, 2), Report(0, 3, 0)}

Tight == Set(7, 9, 250)
(* A second request fits once the first has settled, exactly, and not before. *)
MCSettings == {Set(5, 6, 250), Set(NULL, NULL, 0)}
MCOneSetting == {Tight}
MCSmallUsage == {Report(1, 1, 0)}
MCMixedUsage == {Report(1, 1, 0), Report(0, 3, 0)}
=============================================================================
