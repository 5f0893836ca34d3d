----------------------------- MODULE MCStartup ------------------------------
(* One file; a configuration that is right, and with one thing wrong.      *)
EXTENDS Startup

Right == [rpc |-> "main", gateway |-> "main", dir |-> "there", poll |-> 5, garbled |-> FALSE]

Least == [rpc |-> "test", gateway |-> Absent, dir |-> Absent, poll |-> NoPoll, garbled |-> FALSE]

MCContents ==
  {Right, Least}
    \cup {[Right EXCEPT !.rpc = u] : u \in {"test", "other", "word", Absent}}
    \cup {[Right EXCEPT !.gateway = u] : u \in {"test", "word", "slash", Absent}}
    \cup {[Right EXCEPT !.dir = d] : d \in {"missing", "readonly"}}
    \cup {[Right EXCEPT !.poll = n] : n \in {0, 1, 3600, 3601}}
    \cup {[Right EXCEPT !.garbled = TRUE]}
    \cup {[Least EXCEPT !.rpc = "other"]}

MCEnvironments == {Right, Least, NoSettings, [Right EXCEPT !.poll = 0]}

MCNetworks == {"main", "test", "other"}
MCKnown == {"main", "test"}
MCPaths == {"config.toml"}
MCCommandLines == {<<>>, <<"config.toml">>, <<"gone.toml">>, <<"-c", "config.toml">>}
=============================================================================
