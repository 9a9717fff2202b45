----------------------------- MODULE MCConnect -----------------------------
(***************************************************************************)
(* An instance of Connect for TLC.  Lengths are scaled down.                *)
(***************************************************************************)
EXTENDS Connect

Conf(px, ssl, soft_, hard_, laddr) ==
  [px |-> px, ssl |-> ssl, soft |-> soft_, hard |-> hard_, laddr |-> laddr]

MCConfs ==
  {Conf("none", FALSE, 0, 0, FALSE), Conf("none", FALSE, 0, 2, FALSE),
   Conf("none", TRUE, 1, 3, TRUE),   Conf("none", FALSE, 3, 2, FALSE),
   Conf("none", TRUE, 1, 0, FALSE),  Conf("none", FALSE, 1, 4, FALSE),
   Conf("http", FALSE, 1, 2, FALSE), Conf("socks4", TRUE, 1, 2, FALSE),
   Conf("socks5", FALSE, 1, 2, FALSE), Conf("socks5", TRUE, 0, 0, FALSE)}
=============================================================================
