------------------------------- MODULE MCStream -------------------------------
(* The writes made through one stream: single bytes, a line, and one that is  *)
(* larger than the buffer; 2 stands for the newline.                          *)
EXTENDS Stream

MCWrites == {<<1>>, <<2>>, <<1, 2>>, <<2, 1, 1>>}
===============================================================================
