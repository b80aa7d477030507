------------------------------ MODULE MCCmdCore ------------------------------
(***************************************************************************)
(* Instances of CmdCore for TLC.                                           *)
(***************************************************************************)
EXTENDS CmdCore

Word(code, field, low) == 16384 * code + 256 * field + low

\* Set up: reset, upper bits 00, 01 and 11, PHY, reads inside and outside their
\* ranges.
McSetup == {Word(0, c[1], c[2]) : c \in
              {<<0, 0>>, <<1, 0>>, <<1, 4>>, <<1, 12>>, <<2, 1>>, <<4, 3>>, <<4, 4>>,
               <<5, 0>>, <<5, 7>>, <<5, 15>>, <<5, 16>>, <<5, 17>>}}
\* Receive and transmit on the last channel and above it; vendor carriers (0),
\* settings (2) and unknown commands (7).
McTests == {Word(1, c, 0) : c \in {0, 39, 40}}
           \cup {Word(2, c, 4 * 37) : c \in {39, 40}}
           \cup {Word(2, c, 4 * length + 3) : c \in {0, 40}, length \in {0, 2, 7}}
\* Test end, and with a control code or parameter it does not have.
McEnds == {Word(3, 0, 0), Word(3, 0, 10), Word(3, 0, 11), Word(3, 1, 0)}
McTesterCmds == McSetup \cup McTests \cup McEnds

McChannels == {3, 39}
McLengths == {0, 37}
McPowers == {0, 8}
McCounts == {1, 32767, 32768, 65535}
=============================================================================
