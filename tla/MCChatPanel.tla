----------------------------- MODULE MCChatPanel -----------------------------
(* Instances of ChatPanel for TLC.                                           *)
EXTENDS ChatPanel, TLC

CONSTANTS claude, gpt
MCProviderOf == claude :> "claude" @@ gpt :> "openai"
=============================================================================
