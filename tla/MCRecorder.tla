----------------------------- MODULE MCRecorder -----------------------------
(* Recorder with commands of one and of four bytes: a short one and one     *)
(* whose length fills a byte, with bytes that could pass for a length       *)
(* prefix; and a short frame that is no command.                            *)
EXTENDS Recorder

MCCommands == {<<1, 0, 0>>, <<0, 1, 1, 0, 0, 1>>}

MCFrames == MCCommands \cup {<<1, 0, 3>>}

=============================================================================
