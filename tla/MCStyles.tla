------------------------------ MODULE MCStyles ------------------------------
EXTENDS Styles
MCNodes == {
    [type |-> "grid", parent |-> "section", kids |-> <<"container">>],
    [type |-> "section", parent |-> "page", kids |-> <<"container">>],
    [type |-> "section", parent |-> "page", kids |-> <<"column", "column">>],
    [type |-> "row", parent |-> "section", kids |-> <<"text", "column">>],
    [type |-> "column", parent |-> "row", kids |-> <<"heading">>],
    [type |-> "heading", parent |-> "section", kids |-> <<>>]}
MCFollowed == {{"gridTemplateColumns"}, {"fontSize"}, {"display", "flexDirection", "height"}, {"width", "flexDirection"}}
=============================================================================
