------------------------------- MODULE MCAdapters -------------------------------
(* One small instance of each platform, and one of Discord with its voice channel. *)
EXTENDS Adapters

Slots == {1, 2}
Few == [platform |-> "discord", messages |-> 2, greetings |-> 0, commands |-> 0, packets |-> 0, cuts |-> 0]
Greeted == [Few EXCEPT !.messages = 1, !.greetings = 1]
Spoken == [Few EXCEPT !.messages = 0, !.commands = 2, !.packets = 2]
Platforms ==
  {[Few EXCEPT !.cuts = 1], Greeted,
   [Few EXCEPT !.platform = "telegram"],
   [Few EXCEPT !.platform = "slack", !.cuts = 1],
   [Greeted EXCEPT !.platform = "line"], [Greeted EXCEPT !.platform = "whatsapp"],
   [Greeted EXCEPT !.platform = "signal"],
   Spoken, [Spoken EXCEPT !.packets = 1, !.cuts = 1],
   [Spoken EXCEPT !.messages = 1, !.commands = 1, !.packets = 1],
   [Spoken EXCEPT !.commands = 3, !.packets = 0]}
================================================================================
