---- MODULE MCServer ----
(***************************************************************************)
(* Three requests: two chats of unequal tiers and a premium RAG stream.    *)
(***************************************************************************)
EXTENDS Server, TLC

CONSTANTS r1, r2, r3

MCTier     == (r1 :> "FREE") @@ (r2 :> "PREMIUM") @@ (r3 :> "FREE")
MCWorkload == (r1 :> "CHAT") @@ (r2 :> "RAG") @@ (r3 :> "CHAT")
====
