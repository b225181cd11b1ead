------------------------------- MODULE Texts --------------------------------
(***************************************************************************)
(* Names, symbols, addresses and hashes as the lookups of loader/ tell     *)
(* them apart.  A text is a word in one of three forms: all lower case,    *)
(* all upper case, or lower case with blanks around it.                    *)
(***************************************************************************)
CONSTANT Words  \* the words texts are made of

Text == [word : Words, form : {"lower", "upper", "padded"}]

\* strings.TrimSpace, strings.ToLower and strings.ToUpper.  Upper leaves the
\* blanks, and with them the text different from every other.
Trim(s) == IF s.form = "padded" THEN [s EXCEPT !.form = "lower"] ELSE s
Lower(s) == IF s.form = "upper" THEN [s EXCEPT !.form = "lower"] ELSE s
Upper(s) == IF s.form = "lower" THEN [s EXCEPT !.form = "upper"] ELSE s
Norm(s) == Lower(Trim(s))
=============================================================================
