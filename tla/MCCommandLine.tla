--------------------------- MODULE MCCommandLine ---------------------------
(* A small network with one inner address, a handful of log records that   *)
(* split over windows and polls, and datasets of up to four windows.       *)
EXTENDS CommandLine
CONSTANTS attacker, outside, inner, publicIp, innerIp, publicName, reservedName, digest

Blank ==
  [id |-> 0, times |-> 1, source |-> "cowrie", session |-> Absent, src |-> Absent,
   dest |-> Absent, host |-> FALSE, time |-> Absent, marks |-> {}, passwords |-> {},
   urls |-> {}, hashes |-> {}, sent |-> 0, received |-> 0]

MCEvents == {
  [Blank EXCEPT !.id = 1, !.times = 3, !.session = 7, !.src = attacker, !.dest = inner, !.time = 1,
                !.marks = {"login_failures"}, !.passwords = {1, 2, 3}],
  [Blank EXCEPT !.id = 2, !.times = 15, !.session = 7, !.marks = {"login_failures"},
                !.passwords = {3, 4, 5, 6, 7}],
  [Blank EXCEPT !.id = 3, !.session = 7, !.src = attacker, !.dest = inner, !.time = 2,
                !.marks = {"commands", "download_commands"}, !.urls = {1}],
  [Blank EXCEPT !.id = 4, !.source = "zeek", !.times = 2, !.src = inner, !.dest = outside, !.time = 3,
                !.sent = 3, !.received = 1, !.urls = {2}],
  [Blank EXCEPT !.id = 5, !.source = "suricata", !.dest = outside, !.time = 4,
                !.marks = {"alert", "malware"}, !.hashes = {1}],
  [Blank EXCEPT !.id = 6, !.source = "ebpf", !.dest = outside, !.host = TRUE, !.time = 2,
                !.marks = {"commands", "download_commands", "download_tool", "loopback", "shell"}],
  [Blank EXCEPT !.id = 7, !.source = "ebpf", !.dest = outside, !.host = TRUE, !.time = 3,
                !.marks = {"network_connect"}, !.sent = 2, !.received = 1]}

Url(form, host) == [form |-> form, host |-> host]
MCSightings == {
  [src |-> {publicIp}, dest |-> {innerIp}, urls |-> {}, domains |-> {innerIp}, hashes |-> {}],
  [src |-> {innerIp}, dest |-> {publicIp}, urls |-> {Url("slashes", innerIp)},
   domains |-> {reservedName}, hashes |-> {digest}],
  [src |-> {publicIp}, dest |-> {}, urls |-> {Url("scheme", innerIp), Url("slashes", publicIp)},
   domains |-> {publicName}, hashes |-> {}],
  [src |-> {}, dest |-> {}, urls |-> {Url("bare", innerIp), Url("slashes", reservedName)},
   domains |-> {publicIp}, hashes |-> {digest}]}

MCNetworks == {{}, {attacker}, {inner}}
MCShares == {<<20, 60>>, <<80, 10>>}
MCLevels == {-20, -10, 40}
=============================================================================
