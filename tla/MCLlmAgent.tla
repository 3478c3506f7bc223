----------------------------- MODULE MCLlmAgent -----------------------------
(* Instances of LlmAgent for TLC: one reply for every way the loop of       *)
(* provider_agent can go on.                                                *)
EXTENDS LlmAgent

Reply(t, f, c) == [key |-> TRUE, transport |-> t, finish |-> f, content |-> c]
TheReplies ==
  {Reply("ok", "stop", "valid"), Reply("ok", "stop", "prose"), Reply("ok", "stop", "blank"),
   Reply("timeout", "stop", "valid"), Reply("ok", "content_filter", "valid")}
=============================================================================
