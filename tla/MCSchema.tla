------------------------------ MODULE MCSchema ------------------------------
EXTENDS Schema
=============================================================================
