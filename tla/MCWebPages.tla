----------------------------- MODULE MCWebPages -----------------------------
(***************************************************************************)
(* Two devices, one wedding, two photos, two contacts; six passwords that  *)
(* the rules and the meter tell apart, one of them accepted by the pages   *)
(* and refused by the server.                                              *)
(***************************************************************************)
EXTENDS WebPages

SomePasswords ==
  [size : {12}, kinds : {{"lower", "digit"}, {"lower", "digit", "accented"}},
   spaces : {FALSE}]
  \cup [size : {16}, kinds : {{"lower", "upper", "digit", "symbol"}}, spaces : BOOLEAN]
  \cup [size : {8, 12}, kinds : {{"lower", "upper", "digit"}}, spaces : {FALSE}]

=============================================================================
