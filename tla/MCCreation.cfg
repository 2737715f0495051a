SPECIFICATION CreationSpec
CONSTANTS
  NSObject = NSObject
  TestBaseClass = TestBaseClass
  A = A
  B = B
  FSClass1 = FSClass1
  foo = foo
  Foo = Foo
  bad = bad
  v1 = v1
  Class = {NSObject, TestBaseClass, A, B, FSClass1}
  ObjCClass = {NSObject, TestBaseClass}
  ObjCChain <- MCObjCChain
  MaxAnonymous = 1
  AnonymousName <- MCAnonymousName
  Prop = {foo, Foo, bad}
  IllFormed = {bad}
  LowerFirst <- MCLowerFirst
  UpperFirst <- MCUpperFirst
  Value = {}
  MaxList = 2
  Nil = Nil
  NSNull = NSNull
CONSTRAINTS MCSmall MCInOrder
VIEW MCView
INVARIANTS CreationTypeOK ChainIsLine WalkIsComplete AllocatorHasImp OneIvarDictionary
PROPERTIES DefinitionsStable NoRedeclaration
