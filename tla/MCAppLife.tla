------------------------------ MODULE MCAppLife ------------------------------
EXTENDS AppLife
MCCommandLines == {<<>>, <<"d", "v">>, <<"v", "d">>, <<"v", "c">>, <<"p", "c", "l">>, <<"d", "p", "c", "v">>,
                   <<"c", "x">>, <<"l">>}
===============================================================================
