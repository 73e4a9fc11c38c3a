-------------------------- MODULE MCUpdateService --------------------------
(* Instances of UpdateService for TLC: a script that goes round two states, *)
(* with each way in which a function can end.                               *)
EXTENDS UpdateService

MCFuncs == {"BEGIN", "stCheck", "stWork"}
Ends(how) == [ends |-> how, next |-> NoFunc]
Arms(f)   == [ends |-> "armed", next |-> f]

MCBody ==
  [f \in MCFuncs |->
     CASE f = "BEGIN"   -> {Arms("stCheck"), Ends("unruled"), Ends("unarmed"), Ends("error")}
       [] f = "stCheck" -> {Arms("stWork")}
       [] f = "stWork"  -> {Arms("stCheck"), Ends("exit"), Ends("error")}]

MCCommands == [c \in {"StartSession", "Recognize"} |-> 1]

\* A script without errors.
MCSound == [f \in MCFuncs |-> {o \in MCBody[f] : o.ends # "error"}]
=============================================================================
