---------------------------- MODULE MCGMManager ----------------------------
(***************************************************************************)
(* Gamemasters 1 and 2 are registered by the first block; 3 and 4 may be.  *)
(***************************************************************************)
EXTENDS GMManager

MCContents ==
    << <<ProReg(1, FALSE, "c1", "o1", "k1", "a1"), ProReg(2, FALSE, "c2", "o2", "k2", "a2")>>,
       << >>,
       <<ProUpServ(2, "a3", "k2"), ProUpServ(1, "a2", "k1")>>,
       <<ProUpServ(1, "a3", "k1"), ProUpRev(2, "k2")>>,
       <<ProReg(3, TRUE, "c1", "o3", "k5", "a1")>>,
       <<ProReg(4, FALSE, "c4", "o4", "k6", Null), Spend({"c1", "c2", "c4"}), LLMQComm({1})>> >>
MCStart == <<1, 2>>
=============================================================================
