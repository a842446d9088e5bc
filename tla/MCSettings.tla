------------------------------ MODULE MCSettings ------------------------------
EXTENDS SettingsManager, TLC

\* A name above two others, and the name with nothing in it.
MCName == {<<>>, <<"a">>, <<"a", "b">>, <<"a", "c">>}
MCDefaultName == {<<"a">>, <<"a", "b">>}
MCDefault == <<"a">> :> "x" @@ <<"a", "b">> :> "x"

\* A null where save() writes none, an array, a branch whose value is a number
\* and another one below it, and a setting next to a number.
MCByHand ==
  {<<"a">> :> Empty, <<>> :> Other,
   <<"a", Own>> :> Other @@ <<"a", "b">> :> "y",
   <<"a", "b">> :> "y" @@ <<"a", "c">> :> Other}
=============================================================================
