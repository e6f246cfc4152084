------------------------------- MODULE MCTyping -------------------------------
(* Two lists of different lengths and a number                             *)
EXTENDS Typing

MCInputs == {Value("NULL", 0), Value("integer", 1)}
MCLists == {Value("list", 1), Value("list", 2), Value("double", 1)}
===============================================================================
