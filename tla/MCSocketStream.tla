--------------------------- MODULE MCSocketStream ---------------------------
(* SocketStream with MAX_MSG_SIZE = 2 and a slack of 1: flowbuf holds five  *)
(* bytes, strbuf four.  Messages of 0, 1 and 3 characters can never harm;   *)
(* one of 4 can terminate the process or overrun strbuf, depending on how   *)
(* the stream is fragmented.                                                *)
EXTENDS SocketStream

CONSTANTS x, y

MCMessages == {<<>>, <<x>>, <<y, x, y>>, <<x, x, y, x>>}
=============================================================================
