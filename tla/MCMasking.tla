------------------------------ MODULE MCMasking ------------------------------
(* A small instance of Masking: one column written in two ways, and one whose *)
(* name has a blank that only a rule's key loses.                             *)
EXTENDS Masking, TLC

MCNames == {"", "email", "Email", " email"}
MCToLower == [n \in MCNames |-> IF n = "Email" THEN "email" ELSE n]
MCTrimSpace == [n \in MCNames |-> IF n = " email" THEN "email" ELSE n]
MCTokens == {"t1", "t2"}
MCStatic == {[k \in {} |-> "t1"], [k \in {"Email", ""} |-> "t1"]}
MCServed == << "email" :> "t2" @@ " email" :> "t1", [k \in {} |-> "t1"] >>

Col(name, text) == [name |-> name, text |-> text]
MCColumns == {<<>>, <<Col("email", TRUE)>>, <<Col("Email", TRUE), Col("email", TRUE)>>,
              <<Col(" email", TRUE), Col("email", FALSE)>>}
MCRows == {<<"long", "long">>, <<"short", "long">>, <<"nil", "short">>}
MCResults == [cols : MCColumns, row : MCRows]
==============================================================================
