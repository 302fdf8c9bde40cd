---------------------------- MODULE MCHttpMessage ----------------------------
(***************************************************************************)
(* Small instances of HttpMessage.  Bodies contain what could be mistaken  *)
(* for framing: digits and line ends.                                      *)
(***************************************************************************)
EXTENDS HttpMessage, TLC

FramingBytes == {Hex(0), CR, LF}

FewExtras == {<<Token("other", 1)>>, <<Token("no colon", 0), Token("other", 2)>>}
=============================================================================
