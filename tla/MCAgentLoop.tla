----------------------------- MODULE MCAgentLoop -----------------------------
EXTENDS AgentLoop

Statement(type, tables, words) == [type |-> type, tables |-> tables, words |-> words]
Text(code) == [code |-> code, comment |-> {}]

(* Texts that pass the guard and texts that each layer of it must refuse.  *)
OneQuery == <<Statement("SELECT", {"movies"}, {})>>
MCSqlTexts ==
  { Text(OneQuery),
    [code |-> OneQuery, comment |-> {"DROP"}],
    Text(<<Statement("SELECT", {"movies"}, {"SET"})>>),
    Text(<<Statement("SELECT", {"audit_log"}, {})>>),
    Text(OneQuery \o <<Statement("DROP", {"movies"}, {"DROP"})>>),
    Text(<<Statement("PRAGMA", {}, {})>>),
    Text(<<>>) }

(* The code, and the code with either slip or both repaired.               *)
MCBuilds == SUBSET Interfaces
MCTheCode == {{}}
=============================================================================
