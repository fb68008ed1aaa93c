SPECIFICATION RedirectSpec
CONSTANT
  MaxDirective = 4
INVARIANTS RedirectTypeOK PlaysWhereDirected DirectiveIsKept
CHECK_DEADLOCK FALSE
