------------------------------ MODULE MCScrape ------------------------------
(* Machines with up to two cores and two filesystems, among them a second   *)
(* one at the root and one whose mount point holds the marks of the text    *)
(* format.                                                                  *)
EXTENDS Scrape

MCNumber == [n \in {"1", "2", "8"} |-> CASE n = "1" -> 1 [] n = "2" -> 2 [] n = "8" -> 8]

Root == <<"/">>
Marked == <<"/a", ",", "b", "=", " ", "{">>
MCValues == {<<"0">>, <<"1">>, <<"dev", "0">>, <<"dev", "1">>, Root, Marked}

Core(id, idle) ==
    [id |-> <<id>>, seconds |-> [m \in ToSet(Mode) |-> IF m = "idle" THEN idle ELSE "2"]]

Fs(device, mount, size, avail) ==
    [device |-> <<"dev", device>>, mount |-> mount, size |-> size, avail |-> avail]

Filesystem == {Fs("0", Root, "2", "1"), Fs("1", Root, "8", "2"), Fs("1", Marked, "8", "1")}

Families(boot) ==
    <<[name |-> "node_boot_time_seconds", value |-> boot],
      [name |-> "node_load1", value |-> "2"],
      [name |-> "node_memory_MemTotal_bytes", value |-> "2"]>>

MCMachines ==
    [cpu   : {<<>>, <<Core("0", "1")>>, <<Core("0", "1"), Core("1", "8")>>},
     fs    : BoundedSeq(Filesystem, 2),
     plain : {<<>>, Families("1"), Families("8")}]

MCToken == Mark \cup Word \cup DOMAIN MCNumber
           \cup {"0", "dev", "/a", "b", "x", "HELP", "<", "html", ">"}

MCComments == {<<>>, <<" ">>, <<"#", " ", "HELP", " ", "{">>, <<" ", "#">>}

MCGarbage == {<<"node_load1">>, <<"node_load1", " ">>, <<"node_load1", " ", "x">>,
              <<"x", "{", "cpu", "=", "\"", "0", "\"", " ", "1">>,
              <<"x", "{", "cpu", "=", "\"", "0", "\"", "}">>,
              <<"x", "{", "cpu", "=", "0", "}", " ", "1">>,
              <<"x", "{", "cpu", "=", "\"", "}", " ", "1">>,
              <<"x", "{", "cpu", "}", " ", "1">>,
              <<"<", "html", ">">>}
=============================================================================
