------------------------------ MODULE MCSdCard ------------------------------
(* SD and MMC cards that are ready in time, and SD cards that may not be.  *)
EXTENDS SdCard

MCBuffers == {<<1, 2, 3>>}

MCInit == Init /\ (call.slow => call.type = "CARD_SD")
MCSpec == MCInit /\ [][Next]_vars /\ WF_vars(Driver)
                 /\ WF_vars(CardWorks \/ TimePasses)
=============================================================================
