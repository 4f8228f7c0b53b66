----------------------------- MODULE MCDiscordBot -----------------------------
(***************************************************************************)
(* DiscordBot with a thread of the configured channel, another channel and *)
(* a direct message.                                                       *)
(***************************************************************************)
EXTENDS DiscordBot

CONSTANTS home, inner, outer, dm

Said(c, what) == [channel |-> c, bot |-> FALSE, says |-> what]

Arriving ==
  {Said(inner, "talk"), Said(inner, "direct"), Said(inner, "role"), Said(outer, "direct"),
   Said(dm, "blank")}

\* A text that is cut at candidates and, where there is none, between spaces,
\* and one that ends in a line of its own, which Discord refuses.
Sent ==
  {[to |-> inner, text |-> <<"\n", "x", "x", "x", "x", " ", " ", "x", "!", " ", "x">>],
   [to |-> inner, text |-> <<"x", "x", "x", "x", "\n">>]}

=============================================================================
