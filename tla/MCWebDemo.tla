------------------------------ MODULE MCWebDemo ------------------------------
(* Small instance of WebDemo for TLC: texts are strings, and what the code does *)
(* with them is written down case by case.                                      *)
EXTENDS WebDemo, TLC
CONSTANTS d1, d2

MCUuids == {"u1", "u2", "u3", "u4"}
MCInstants == {d1, d2}
MCIso == d1 :> "2024-01-01" @@ d2 :> "2024-01-02"
MCTexts == {"", "  ", "Demo Comic", " Demo  Comic", "Demo  Comic", "demo comic", "told", "k1"} \cup Origins \cup TitleKinds \cup MCUuids
           \cup {MCIso[d] : d \in MCInstants}

MCTrim == [t \in MCTexts |-> CASE t = "  " -> ""
                               [] t = " Demo  Comic" -> "Demo  Comic"
                               [] OTHER -> t]
MCSqueeze == [t \in MCTexts |-> IF MCTrim[t] = "Demo  Comic" THEN "Demo Comic" ELSE MCTrim[t]]
MCNorm == [t \in MCTexts |->
             IF MCSqueeze[t] = "Demo Comic" THEN "demo comic" ELSE MCSqueeze[t]]
MCDateOf == [t \in MCTexts |-> IF \E d \in MCInstants : MCIso[d] = t
                               THEN CHOOSE d \in MCInstants : MCIso[d] = t ELSE None]

\* The form as it is first sent, edited (title respaced, a description), and with a
\* description that is blank.
MCForm(t, d) == [title |-> t, description |-> d, authorName |-> "", idempotencyKey |-> "k1"]
MCForms == {MCForm("Demo Comic", ""), MCForm(" Demo  Comic", "told"), MCForm("Demo Comic", "  ")}
MCComicId == <<"u1", "u3">>
MCTitleId == <<"u2", "u4">>
MCNow == <<d1, d2>>
=============================================================================
