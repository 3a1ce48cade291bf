----------------------------- MODULE MCGMChain -----------------------------
(***************************************************************************)
(* Gamemasters 1 and 2 are registered by the first block; 3 and 4 may be.  *)
(***************************************************************************)
EXTENDS GMChain

MCContents ==
    << <<ProReg(1, FALSE, "c1", "o1", "k1", "a1"), ProReg(2, FALSE, "c2", "o2", "k2", "a2")>>,
       << >>,
       <<ProUpServ(2, "a3", "k2"), ProUpServ(1, "a2", "k1")>>,
       <<ProUpServ(1, "a3", "k1"), ProUpServ(1, "a4", "k1"), ProUpServ(2, "a3", "k2")>>,
       <<ProUpReg(1, "k3"), ProUpServ(1, "a3", "k1")>>,
       <<ProUpRev(1, "k1")>>,
       <<ProUpReg(1, "k4")>>,
       <<ProUpServ(1, "a1", "k4")>>,
       <<ProReg(3, TRUE, "c1", "o3", "k5", "a1")>>,
       <<ProReg(4, FALSE, "c4", "o4", "k6", Null)>>,
       <<ProReg(4, FALSE, "c4", "o4", "k6", Null), Spend({"c4"})>>,
       <<ProUpServ(4, "a5", "k6")>>,
       <<Spend({"c2"})>>,
       <<LLMQComm({1})>>,
       <<LLMQComm({1, 2})>> >>
MCStart == <<1, 2, 2>>
=============================================================================
