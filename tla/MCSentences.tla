---------------------------- MODULE MCSentences ----------------------------
(* Small sentences for Sentences: single blanks, two blanks, a tab.         *)
EXTENDS Sentences

Plain == <<1, Blank, 2, Blank, 3, Blank, 4, Blank, 5>>
Short == <<1, Blank, 2>>
Wide == <<1, Blank, Blank, 2, Blank, 3, Blank, 4>>
Tabbed == <<1, Tab, 2, Blank, 3, Tab, 4>>

MCTexts == {Plain, Short, Wide, Tabbed}

\* Windows of 2 set by the user, who asks for an overlap of a half; windows of 3 and
\* of 2 by the model, the second with more overlap than fits.
MCConfigs ==
    {[max_tokens |-> 2, overlap |-> 500, model_max |-> 3, model_overlap |-> 1],
     [max_tokens |-> 0, overlap |-> 125, model_max |-> 3, model_overlap |-> 1],
     [max_tokens |-> 0, overlap |-> 0, model_max |-> 2, model_overlap |-> 3]}
=============================================================================
