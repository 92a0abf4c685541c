---------------------------- MODULE MCEEPROMManager ----------------------------
EXTENDS EEPROMManager

(* Records of two, three and four bytes start and end on either side of a  *)
(* page's edge and can fill the eight cells exactly.                         *)
AnyStrings == {<<1>>, <<2, 1>>, <<1, 2, 1>>}
=============================================================================
