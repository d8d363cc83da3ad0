--------------------------- MODULE MCVerification ---------------------------
(***************************************************************************)
(* Records of one student as they come in: clean, with a space around the  *)
(* name or the number, with a speciality of nothing but spaces, and the    *)
(* same from a CSV file; another university has a clean one, of the same   *)
(* number, whose name contains that of the student.                        *)
(***************************************************************************)
EXTENDS Verification

CONSTANTS u1, u2, a, b, w1, n1

MCUniversity == {u1, u2}
MCText       == {a, b}
MCContains   == {<<a, a>>, <<b, b>>, <<a, b>>}

Plain(t)  == [text |-> t, spaced |-> FALSE]
Spaced(t) == [text |-> t, spaced |-> TRUE]

CleanData == [f \in FieldName |-> Plain(IF f = "diploma_number" THEN a ELSE b)]

With(f, value) == [CleanData EXCEPT ![f] = value]

Json(u, data) == [vuz |-> u, csv |-> FALSE, data |-> data]
Csv(u, data)  == [vuz |-> u, csv |-> TRUE, data |-> data]

MCUpload ==
    {Json(u1, CleanData),
     Json(u1, With("full_name", Spaced(b))),
     Json(u1, With("diploma_number", Spaced(a))),
     Json(u1, [With("specialty", Spaced(Blank)) EXCEPT !["diploma_number"] = Plain(b)]),
     Json(u1, With("diploma_number", Spaced(Blank))),
     Csv(u1, With("faculty", Spaced(b))),
     Csv(u1, With("full_name", Spaced(Blank))),
     Json(u2, With("full_name", Plain(a)))}

\* Texts: base64 of 32 bytes as the documentation asks for, with a space, with a
\* line break, unpadded; 64 hexadecimal digits; a short one; a phrase; nothing.
MCWide   == {w1}
MCNarrow == {n1}

Decoded(hex, std, raw, strict, spaced, blank) ==
    [hex |-> hex, std |-> std, raw |-> raw, strict |-> strict, spaced |-> spaced,
     blank |-> blank]

Base64 == Decoded(None, w1, None, TRUE, FALSE, FALSE)

MCSecret ==
    {Base64,
     [Base64 EXCEPT !.spaced = TRUE],
     [Base64 EXCEPT !.strict = FALSE],
     Decoded(None, None, w1, FALSE, FALSE, FALSE),
     Decoded(w1, n1, n1, TRUE, FALSE, FALSE),
     Decoded(None, n1, n1, TRUE, FALSE, FALSE),
     Decoded(None, None, None, FALSE, FALSE, FALSE),
     Decoded(n1, n1, n1, TRUE, FALSE, TRUE)}
=============================================================================
