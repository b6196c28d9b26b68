---------------------------- MODULE MCDapServer ------------------------------
(***************************************************************************)
(* Instance of DapServer for TLC: every command occurs in a batch before   *)
(* one whose answer depends on being found, and on what was run before.    *)
(***************************************************************************)
EXTENDS DapServer

Abort == Cmd("WriteABORT", <<>>)
MCBatches ==
  { <<Cmd("Connect", <<0>>)>>,
    <<Cmd("Disconnect", <<>>), Cmd("SWJ_Sequence", <<0>>), Abort>>,
    <<Cmd("Connect", <<1>>), Cmd("SWD_Sequence", <<128, 9, 192>>), Abort,
      Cmd("Connect", <<2>>), Cmd("SWJ_Pins", <<>>), Abort>>,
    <<Cmd("SWD_Configure", <<7>>), Cmd("JTAG_Sequence", <<0, 17>>),
      Cmd("JTAG_Configure", <<3>>), Cmd("JTAG_IDCODE", <<0>>), Cmd("Info", <<255>>),
      Cmd("SWJ_Clock", <<4>>)>>,
    <<Cmd("HostStatus", <<2>>), Cmd("Delay", <<1>>), Cmd("ResetTarget", <<>>),
      Cmd("TransferConfigure", <<0>>), Cmd("SWJ_Clock", <<0>>), Cmd("Unknown", <<>>),
      Cmd("SWJ_Clock", <<5>>)>> }
=============================================================================
