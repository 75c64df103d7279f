---------------------------- MODULE MCTextInput ----------------------------
(***************************************************************************)
(* Instances of TextInput for TLC.  With texts of a few characters, and an *)
(* inBuffer of five bytes, the whole machinery of short reads, full        *)
(* buffers and split characters happens.                                   *)
(***************************************************************************)
EXTENDS TextInput

Ascii  == Char(1, 1)
Accent == Char(2, 1)
Emoji  == Char(4, 2)

Utf8Texts == TextsOf({Ascii, Accent, Emoji}, 4)

\* Some of these hold bytes that are no character.
BadTexts == TextsOf({Ascii, Emoji, Rubbish}, 3)

\* And some of the files stop in the middle of a character.
MCTexts == Utf8Texts \cup BadTexts \cup {Truncated(t) : t \in Utf8Texts}
=============================================================================
