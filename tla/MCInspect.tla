------------------------------- MODULE MCInspect -------------------------------
(* Small instances of Inspect for TLC. *)
EXTENDS Inspect

CONSTANTS s, u, v, t, x, g, said, a

(* A system prompt, two user messages, a document that may be tagged, a tool  *)
(* schema, an image and an assistant's message that names the tool.           *)
SlotOf == [b \in Blocks |->
  CASE b = s -> "system" [] b = x -> "schema" [] b = g -> "image" [] b = said -> "assistant"
    [] OTHER -> "user"]
TokensOf == [b \in Blocks |->
  CASE b = s -> 4 [] b = u -> 2 [] b = v -> 3 [] b = t -> 5 [] b = x -> 6 [] b = said -> 1
    [] b = g -> 0]
MentionsOf == [b \in Blocks |-> IF b = said THEN {x} ELSE {}]

Turn(agent, blocks, tagged) ==
  [agent |-> agent, blocks |-> blocks,
   tags |-> [i \in DOMAIN blocks |-> IF blocks[i] \in tagged THEN "tag" ELSE None]]

(* What the first session holds, and the second. *)
TurnsOf1 ==
  {Turn(a, <<s, u, t>>, {t}), Turn(a, <<s, t, u>>, {}), Turn(a, <<s, v>>, {}),
   Turn(a, <<u, s, x>>, {}), Turn(a, <<s, x, u, u>>, {}), Turn(a, <<g>>, {}),
   Turn(a, <<u, s, x, v>>, {}),
   Turn(None, <<s, t>>, {t}), Turn(None, <<s, v, t, said>>, {})}
TurnsOf2 == {Turn(None, <<s, u>>, {}), Turn(a, <<u, t>>, {t})}
RecordableHere == <<TurnsOf1, TurnsOf2>>

First == [name |-> {1}, turn |-> None]
Second == [name |-> {2}, turn |-> None]
File == [name |-> {1, 2}, turn |-> None]
ByAgent == [name |-> a, turn |-> None]

(* Two ids that begin alike, in one file; a handle of the shortest length     *)
(* would name both.                                                          *)
IdsHere == <<<<1, 1, 2>>, <<1, 1, 3>>>>
FileOfHere == <<"file", "file">>

(* A document whose characters take one byte or three when encoded: it goes  *)
(* on a page in part, and the last page begins with an odd one.              *)
TextOf == [b \in Blocks |-> IF b = t THEN <<1, 3, 3, 1, 3>> ELSE <<1, 1>>]

Plain == [server |-> FALSE, handle |-> 0, tool |-> "check", sessions |-> <<>>, agents |-> <<>>, turns |-> <<>>,
          gates |-> {}, window |-> "none", block |-> {}, offset |-> 0, chars |-> 0]
Served == [Plain EXCEPT !.server = TRUE]

AsksHere ==
  {(* check *)
   Plain,
   [Plain EXCEPT !.gates = Gates],
   [Plain EXCEPT !.gates = Gates \ {"max-context-pct"}, !.window = "flag"],
   [Plain EXCEPT !.gates = {"max-context"}, !.window = "invalid"],
   [Plain EXCEPT !.gates = Gates, !.window = "environment"],
   [Plain EXCEPT !.gates = {"max-growth-pct"}, !.sessions = <<First>>,
                 !.agents = <<ByAgent>>],
   [Plain EXCEPT !.gates = {"require-stable-prefix", "no-tagged-eviction"},
                 !.sessions = <<File>>],
   (* tokens, cache *)
   [Plain EXCEPT !.tool = "tokens", !.agents = <<ByAgent>>, !.turns = <<2>>],
   [Plain EXCEPT !.tool = "cache", !.sessions = <<First>>],
   (* diff *)
   [Plain EXCEPT !.tool = "diff", !.turns = <<1>>],
   [Plain EXCEPT !.tool = "diff", !.turns = <<1, 2>>],
   [Plain EXCEPT !.tool = "diff", !.turns = <<1, 3>>, !.sessions = <<First>>,
                 !.agents = <<ByAgent>>],
   [Plain EXCEPT !.tool = "diff", !.turns = <<1>>, !.sessions = <<First, Second>>],
   [Plain EXCEPT !.tool = "diff", !.turns = <<2>>,
                 !.agents = <<[ByAgent EXCEPT !.turn = 1], ByAgent>>],
   (* explain *)
   [Served EXCEPT !.tool = "explain", !.sessions = <<File>>, !.turns = <<2>>],
   [Served EXCEPT !.tool = "explain", !.sessions = <<First>>, !.turns = <<3>>,
                 !.agents = <<ByAgent>>],
   (* export *)
   [Plain EXCEPT !.tool = "export"],
   [Plain EXCEPT !.tool = "export", !.agents = <<ByAgent>>],
   [Plain EXCEPT !.tool = "export", !.agents = <<ByAgent>>, !.sessions = <<Second>>],
   (* sessions, agents *)
   [Plain EXCEPT !.tool = "sessions"],
   [Plain EXCEPT !.tool = "agents"],
   (* the tools of the server, of a session that it listed *)
   [Served EXCEPT !.tool = "tokens", !.handle = 1, !.turns = <<2>>],
   [Served EXCEPT !.tool = "cache", !.handle = 2],
   [Served EXCEPT !.tool = "diff", !.handle = 1, !.turns = <<1, 2>>, !.agents = <<ByAgent>>],
   [Served EXCEPT !.tool = "block", !.handle = 1, !.block = {t}, !.chars = 9],
   [Served EXCEPT !.tool = "block", !.sessions = <<File>>, !.block = {t, u}, !.offset = 1,
                  !.chars = 2],
   [Served EXCEPT !.tool = "block", !.sessions = <<First>>, !.offset = 9]}
=============================================================================
